---- MODULE Spec2Model ----
(***************************************************************************)
(* CLI-backed provider execution subsystem of lazygit-llm-commit-generator *)
(* (lazygit-llm/lazygit_llm): the Gemini error classifier, the output      *)
(* truncation and response cleaning helpers, and the construction and call *)
(* paths of ClaudeCodeProvider, GeminiDirectCLIProvider and                *)
(* GeminiNativeCLIProvider.                                                *)
(*                                                                         *)
(* Text is modelled as a sequence of one-character strings.  A character   *)
(* outside ASCII is the token "U+XXXX" of its code point; its UTF-8 width  *)
(* is given by Width.  The apostrophe and the backquote are written        *)
(* "U+0027" and "U+0060".                                                  *)
(***************************************************************************)
EXTENDS Integers, Sequences, FiniteSets, TLC

\* ------------------------------------------------------------------------
\* Python str / bytes primitives
\* ------------------------------------------------------------------------

Min(S) == CHOOSE x \in S : \A y \in S : x <= y

Max(S) == CHOOSE x \in S : \A y \in S : x >= y

MinInt(a, b) == IF a <= b THEN a ELSE b

MaxInt(a, b) == IF a >= b THEN a ELSE b

\* str.lower() on one character (ASCII letters; other characters unchanged)
LowerMap == ("A" :> "a") @@ ("B" :> "b") @@ ("C" :> "c") @@ ("D" :> "d") @@ ("E" :> "e") @@ ("F" :> "f") @@ ("G" :> "g") @@ ("H" :> "h") @@ ("I" :> "i") @@ ("J" :> "j") @@ ("K" :> "k") @@ ("L" :> "l") @@ ("M" :> "m") @@ ("N" :> "n") @@ ("O" :> "o") @@ ("P" :> "p") @@ ("Q" :> "q") @@ ("R" :> "r") @@ ("S" :> "s") @@ ("T" :> "t") @@ ("U" :> "u") @@ ("V" :> "v") @@ ("W" :> "w") @@ ("X" :> "x") @@ ("Y" :> "y") @@ ("Z" :> "z")

Lower(c) == IF c \in DOMAIN LowerMap THEN LowerMap[c] ELSE c

\* str.lower()
LowerStr(s) == [i \in 1..Len(s) |-> Lower(s[i])]

\* the characters str.strip() removes
Whitespace == {" ", "\n", "\t", "\r"}

\* not s.strip()
IsBlank(s) == \A i \in 1..Len(s) : s[i] \in Whitespace

\* str.strip()
Strip(s) ==
  LET keep == {i \in 1..Len(s) : s[i] \notin Whitespace}
  IN  IF keep = {} THEN <<>> ELSE SubSeq(s, Min(keep), Max(keep))

\* s[i:i+len(p)] == p
LitAt(s, i, p) ==
  /\ i >= 1
  /\ i + Len(p) - 1 <= Len(s)
  /\ \A k \in 1..Len(p) : s[i + k - 1] = p[k]

\* p in s
Contains(s, p) == \E i \in 1..(Len(s) - Len(p) + 1) : LitAt(s, i, p)

\* s.startswith(p)
StartsWith(s, p) == LitAt(s, 1, p)

\* s.endswith(p)
EndsWith(s, p) == Len(p) <= Len(s) /\ LitAt(s, Len(s) - Len(p) + 1, p)

\* any(k in s for k in keywords)
ContainsAny(s, keywords) == \E k \in keywords : Contains(s, k)

\* concatenations of at most n members of the set of strings P
RECURSIVE Concats(_, _)
Concats(P, n) ==
  IF n = 0 THEN {<<>>}
  ELSE LET prev == Concats(P, n - 1)
       IN  prev \cup {p \o t : p \in P, t \in prev}

\* ------------------------------------------------------------------------
\* re.search / re.findall for the patterns of ERROR_PATTERNS.  Every pattern
\* is a list of literals joined by ".*"; "." does not match a newline and
\* the flag re.IGNORECASE is set.
\* ------------------------------------------------------------------------

\* the literal lit matches at position i, ignoring case
ReLitAt(text, i, lit) ==
  /\ i >= 1
  /\ i + Len(lit) - 1 <= Len(text)
  /\ \A k \in 1..Len(lit) : Lower(text[i + k - 1]) = Lower(lit[k])

\* ".*" can consume text[pos..j-1]
ReGap(text, pos, j) == \A k \in pos..(j - 1) : text[k] # "\n"

\* ".*" + parts matches from position pos on
RECURSIVE ReRest(_, _, _)
ReRest(text, parts, pos) ==
  \/ parts = <<>>
  \/ \E j \in pos..(Len(text) - Len(Head(parts)) + 1) :
        /\ ReGap(text, pos, j)
        /\ ReLitAt(text, j, Head(parts))
        /\ ReRest(text, Tail(parts), j + Len(Head(parts)))

\* the pattern matches starting at position i
ReMatchAt(text, parts, i) ==
  /\ ReLitAt(text, i, Head(parts))
  /\ ReRest(text, Tail(parts), i + Len(Head(parts)))

\* re.search(pattern, text, re.IGNORECASE) is not None
re_search(parts, text) == \E i \in 1..Len(text) : ReMatchAt(text, parts, i)

\* position after the match of ".*" + parts from pos on; ".*" is greedy
RECURSIVE ReGreedyEnd(_, _, _)
ReGreedyEnd(text, parts, pos) ==
  IF parts = <<>> THEN pos
  ELSE LET cands == {j \in pos..(Len(text) - Len(Head(parts)) + 1) :
                        /\ ReGap(text, pos, j)
                        /\ ReLitAt(text, j, Head(parts))
                        /\ ReRest(text, Tail(parts), j + Len(Head(parts)))}
       IN  ReGreedyEnd(text, Tail(parts), Max(cands) + Len(Head(parts)))

\* len(re.findall(pattern, text[from:], re.IGNORECASE)): non-overlapping
\* matches, leftmost first
RECURSIVE re_findall_count(_, _, _)
re_findall_count(parts, text, from) ==
  LET starts == {i \in from..Len(text) : ReMatchAt(text, parts, i)}
  IN  IF starts = {} THEN 0
      ELSE 1 + re_findall_count(parts, text,
                 ReGreedyEnd(text, Tail(parts), Min(starts) + Len(Head(parts))))

\* ------------------------------------------------------------------------
\* error_classifier.py
\* ------------------------------------------------------------------------

\* class ErrorType
ErrorType == {"QUOTA_EXCEEDED", "AUTHENTICATION_ERROR", "NETWORK_ERROR",
              "TIMEOUT_ERROR", "RATE_LIMIT", "UNKNOWN_ERROR",
              "SUCCESS_WITH_WARNING"}

\* GeminiErrorClassifier.ERROR_PATTERNS, in dictionary order
ERROR_PATTERNS == <<
  [error_type |-> "QUOTA_EXCEEDED", patterns |-> <<
     <<<<"4","2","9">>, <<"T","o","o"," ","M","a","n","y"," ","R","e","q","u","e","s","t","s">>>>,
     <<<<"Q","u","o","t","a"," ","e","x","c","e","e","d","e","d">>>>,
     <<<<"r","a","t","e"," ","l","i","m","i","t">>, <<"e","x","c","e","e","d","e","d">>>>,
     <<<<"q","u","o","t","a"," ","m","e","t","r","i","c">>, <<"e","x","c","e","e","d","e","d">>>>,
     <<<<"R","E","S","O","U","R","C","E","_","E","X","H","A","U","S","T","E","D">>>>,
     <<<<"r","a","t","e","L","i","m","i","t","E","x","c","e","e","d","e","d">>>> >>],
  [error_type |-> "AUTHENTICATION_ERROR", patterns |-> <<
     <<<<"4","0","1">>, <<"U","n","a","u","t","h","o","r","i","z","e","d">>>>,
     <<<<"4","0","3">>, <<"F","o","r","b","i","d","d","e","n">>>>,
     <<<<"a","u","t","h","e","n","t","i","c","a","t","i","o","n">>, <<"f","a","i","l","e","d">>>>,
     <<<<"i","n","v","a","l","i","d">>, <<"a","p","i">>, <<"k","e","y">>>>,
     <<<<"u","n","a","u","t","h","o","r","i","z","e","d">>, <<"a","c","c","e","s","s">>>> >>],
  [error_type |-> "NETWORK_ERROR", patterns |-> <<
     <<<<"n","e","t","w","o","r","k">>, <<"e","r","r","o","r">>>>,
     <<<<"c","o","n","n","e","c","t","i","o","n">>, <<"f","a","i","l","e","d">>>>,
     <<<<"c","o","n","n","e","c","t","i","v","i","t","y">>, <<"i","s","s","u","e">>>>,
     <<<<"d","n","s">>, <<"r","e","s","o","l","u","t","i","o","n">>, <<"f","a","i","l","e","d">>>>,
     <<<<"s","o","c","k","e","t">>, <<"e","r","r","o","r">>>> >>],
  [error_type |-> "TIMEOUT_ERROR", patterns |-> <<
     <<<<"t","i","m","e","o","u","t">>, <<"e","x","c","e","e","d","e","d">>>>,
     <<<<"r","e","q","u","e","s","t">>, <<"t","i","m","e","d">>, <<"o","u","t">>>>,
     <<<<"c","o","n","n","e","c","t","i","o","n">>, <<"t","i","m","e","o","u","t">>>>,
     <<<<"r","e","a","d">>, <<"t","i","m","e","o","u","t">>>> >>] >>

\* GeminiErrorClassifier.SPECIAL_CASES, in dictionary order
SPECIAL_CASES == <<
  [text |-> <<"E","r","r","o","r"," ","w","h","e","n"," ","t","a","l","k","i","n","g"," ","t","o"," ","G","e","m","i","n","i"," ","A","P","I">>, error_type |-> "QUOTA_EXCEEDED"],
  [text |-> <<"F","a","l","l","b","a","c","k"," ","t","o"," ","F","l","a","s","h"," ","m","o","d","e","l"," ","f","a","i","l","e","d">>, error_type |-> "QUOTA_EXCEEDED"],
  [text |-> <<"L","o","a","d","e","d"," ","c","a","c","h","e","d"," ","c","r","e","d","e","n","t","i","a","l","s">>, error_type |-> "SUCCESS_WITH_WARNING"] >>

\* Retryable with the entry of AUTHENTICATION_ERROR set to True
Retryable_with_authentication(error_type) ==
  error_type \in {"QUOTA_EXCEEDED", "AUTHENTICATION_ERROR", "NETWORK_ERROR", "TIMEOUT_ERROR"}

\* the retryable entry of the messages table of _create_result; a type
\* without an entry gets the entry of UNKNOWN_ERROR
Retryable(error_type) ==
  error_type \in {"QUOTA_EXCEEDED", "NETWORK_ERROR", "TIMEOUT_ERROR"}

\* the message entry used by _create_result, named by the type it belongs to
MessageOf(error_type) ==
  IF error_type \in {"QUOTA_EXCEEDED", "AUTHENTICATION_ERROR", "NETWORK_ERROR",
                     "TIMEOUT_ERROR", "UNKNOWN_ERROR"}
  THEN error_type ELSE "UNKNOWN_ERROR"

\* GeminiErrorClassifier._create_result; confidence is in hundredths
_create_result(error_type, confidence, stdout, stderr, return_code) ==
  [error_type   |-> error_type,
   confidence   |-> confidence,
   message      |-> MessageOf(error_type),
   is_retryable |-> Retryable(error_type),
   return_code  |-> return_code,
   has_stdout   |-> ~IsBlank(stdout),
   has_stderr   |-> ~IsBlank(stderr)]

\* GeminiErrorClassifier._analyze_success_case
_analyze_success_case(stdout, stderr) ==
  LET combined_output == stdout \o <<"\n">> \o stderr
      warned == ContainsAny(combined_output,
                  {<<"E","r","r","o","r"," ","w","h","e","n"," ","t","a","l","k","i","n","g"," ","t","o"," ","G","e","m","i","n","i"," ","A","P","I">>,
                   <<"F","a","l","l","b","a","c","k"," ","t","o"," ","F","l","a","s","h"," ","m","o","d","e","l"," ","f","a","i","l","e","d">>,
                   <<"w","a","r","n","i","n","g">>, <<"W","a","r","n","i","n","g">>})
  IN  [error_type   |-> "SUCCESS_WITH_WARNING",
       confidence   |-> IF warned THEN 90 ELSE 100,
       message      |-> IF warned THEN "SUCCESS_WITH_WARNING" ELSE "SUCCESS",
       is_retryable |-> FALSE,
       return_code  |-> 0,
       has_stdout   |-> ~IsBlank(stdout),
       has_stderr   |-> ~IsBlank(stderr)]

\* the SPECIAL_CASES entries whose text occurs in the output
SpecialHits(stdout, stderr) ==
  LET combined_output == stdout \o <<"\n">> \o stderr
  IN  {i \in 1..Len(SPECIAL_CASES) : Contains(combined_output, SPECIAL_CASES[i].text)}

\* GeminiErrorClassifier._check_special_cases when it does not return None
_check_special_cases(stdout, stderr) ==
  _create_result(SPECIAL_CASES[Min(SpecialHits(stdout, stderr))].error_type,
                 95, stdout, stderr, 1)

\* GeminiErrorClassifier._is_auth_error_not_quota
_is_auth_error_not_quota(combined_output) ==
  LET has_auth_indicators ==
        ContainsAny(combined_output,
                    {<<"4","0","1">>, <<"4","0","3">>, <<"a","u","t","h","e","n","t","i","c","a","t","i","o","n">>, <<"a","p","i"," ","k","e","y">>})
      has_quota_indicators ==
        ContainsAny(combined_output,
                    {<<"4","2","9">>, <<"q","u","o","t","a">>, <<"r","a","t","e"," ","l","i","m","i","t">>, <<"r","e","s","o","u","r","c","e","_","e","x","h","a","u","s","t","e","d">>})
  IN  has_auth_indicators /\ ~has_quota_indicators

\* GeminiErrorClassifier._calculate_confidence, in hundredths
_calculate_confidence(pattern, text) ==
  LET matches == re_findall_count(pattern, text, 1)
      base_confidence == MinInt(90, 60 + matches * 10)
  IN  IF matches > 1 THEN MinInt(95, base_confidence + 10) ELSE base_confidence

\* the patterns of group g that re.search finds in the text
GroupHits(g, text) ==
  {p \in 1..Len(ERROR_PATTERNS[g].patterns) :
     re_search(ERROR_PATTERNS[g].patterns[p], text)}

\* classify_error taking the last matching group instead of the first
classify_error_last_group(stdout, stderr, return_code) ==
  LET combined_output == LowerStr(stdout \o <<"\n">> \o stderr)
      groups == {g \in 1..Len(ERROR_PATTERNS) : GroupHits(g, combined_output) # {}}
  IN  IF return_code = 0 THEN _analyze_success_case(stdout, stderr)
      ELSE IF SpecialHits(stdout, stderr) # {} THEN _check_special_cases(stdout, stderr)
      ELSE IF groups # {}
        THEN LET g == Max(groups)
                 p == Min(GroupHits(g, combined_output))
             IN  _create_result(ERROR_PATTERNS[g].error_type,
                   _calculate_confidence(ERROR_PATTERNS[g].patterns[p], combined_output),
                   stdout, stderr, return_code)
      ELSE IF _is_auth_error_not_quota(combined_output)
        THEN _create_result("AUTHENTICATION_ERROR", 80, stdout, stderr, return_code)
      ELSE _create_result("UNKNOWN_ERROR", 50, stdout, stderr, return_code)

\* GeminiErrorClassifier.classify_error
classify_error(stdout, stderr, return_code) ==
  LET combined_output == LowerStr(stdout \o <<"\n">> \o stderr)
      groups == {g \in 1..Len(ERROR_PATTERNS) : GroupHits(g, combined_output) # {}}
  IN  IF return_code = 0 THEN _analyze_success_case(stdout, stderr)
      ELSE IF SpecialHits(stdout, stderr) # {} THEN _check_special_cases(stdout, stderr)
      ELSE IF groups # {}
        THEN LET g == Min(groups)
                 p == Min(GroupHits(g, combined_output))
             IN  _create_result(ERROR_PATTERNS[g].error_type,
                   _calculate_confidence(ERROR_PATTERNS[g].patterns[p], combined_output),
                   stdout, stderr, return_code)
      ELSE IF _is_auth_error_not_quota(combined_output)
        THEN _create_result("AUTHENTICATION_ERROR", 80, stdout, stderr, return_code)
      ELSE _create_result("UNKNOWN_ERROR", 50, stdout, stderr, return_code)

\* ------------------------------------------------------------------------
\* Output size limits (claude_code_provider.py, src/cli_providers/gemini_cli_provider.py)
\* ------------------------------------------------------------------------

\* characters whose UTF-8 encoding has two bytes
TwoByteChars == {"U+00E9"}

\* characters whose UTF-8 encoding has three bytes
ThreeByteChars == {"U+30D5", "U+30A9", "U+30FC", "U+30EB", "U+30D0", "U+30C3",
                   "U+30AF", "U+6210", "U+529F"}

\* len(c.encode('utf-8'))
Width(c) == IF c \in TwoByteChars THEN 2 ELSE IF c \in ThreeByteChars THEN 3 ELSE 1

\* len(s.encode('utf-8'))
ByteLen(s) ==
  Len(s) + Cardinality({i \in 1..Len(s) : Width(s[i]) >= 2})
         + Cardinality({i \in 1..Len(s) : Width(s[i]) >= 3})

\* the unit 1024 * 1024 bytes of the size limits, scaled down to a number of
\* bytes a model text can exceed
MiB == 24

\* MAX_STDOUT_SIZE of a provider class
MAX_STDOUT_SIZE(cls) == IF cls = "ClaudeCodeProvider" THEN 2 * MiB ELSE MiB

\* MAX_STDERR_SIZE of a provider class
MAX_STDERR_SIZE(cls) == MiB

\* output_bytes[:max_size].decode('utf-8', errors='ignore'): the whole
\* characters among the first max_size bytes
DecodeIgnore(output, max_size) ==
  SubSeq(output, 1, Max({k \in 0..Len(output) : ByteLen(SubSeq(output, 1, k)) <= max_size}))

\* f"\n... ({output_type} truncated due to size limit)"
TruncationMarker(output_type) ==
  <<"\n",".",".","."," ","(">> \o output_type \o <<" ","t","r","u","n","c","a","t","e","d"," ","d","u","e"," ","t","o"," ","s","i","z","e"," ","l","i","m","i","t",")">>

\* _truncate_output with the size test off by one ("<" for "<=")
_truncate_output_lt(output, max_size, output_type) ==
  IF output = <<>> THEN <<>>
  ELSE IF ByteLen(output) < max_size THEN output
  ELSE DecodeIgnore(output, max_size) \o TruncationMarker(output_type)

\* ClaudeCodeProvider._truncate_output, GeminiCLIProvider._truncate_output
_truncate_output(output, max_size, output_type) ==
  IF output = <<>> THEN <<>>
  ELSE IF ByteLen(output) <= max_size THEN output
  ELSE DecodeIgnore(output, max_size) \o TruncationMarker(output_type)

\* ------------------------------------------------------------------------
\* Response cleaning (gemini_direct_cli_provider.py, gemini_native_cli_provider.py)
\* ------------------------------------------------------------------------

\* s.split('\n')
RECURSIVE Split(_)
Split(s) ==
  LET nl == {i \in 1..Len(s) : s[i] = "\n"}
  IN  IF nl = {} THEN <<s>>
      ELSE <<SubSeq(s, 1, Min(nl) - 1)>> \o Split(SubSeq(s, Min(nl) + 1, Len(s)))

\* '\n'.join(lines)
RECURSIVE Join(_)
Join(lines) ==
  IF lines = <<>> THEN <<>>
  ELSE IF Len(lines) = 1 THEN lines[1]
  ELSE lines[1] \o <<"\n">> \o Join(Tail(lines))

\* s[n:]
DropFirst(s, n) == SubSeq(s, n + 1, Len(s))

\* s[1:-1]
DropEnds(s) == SubSeq(s, 2, Len(s) - 1)

\* prefixes_to_remove of GeminiDirectCLIProvider._clean_response
prefixes_to_remove == <<
  <<"C","o","m","m","i","t"," ","m","e","s","s","a","g","e",":">>,
  <<"H","e","r","e","U+0027","s"," ","a"," ","c","o","m","m","i","t"," ","m","e","s","s","a","g","e",":">>,
  <<"S","u","g","g","e","s","t","e","d"," ","c","o","m","m","i","t"," ","m","e","s","s","a","g","e",":">>,
  <<"T","h","e"," ","c","o","m","m","i","t"," ","m","e","s","s","a","g","e"," ","i","s",":">>,
  <<"C","o","m","m","i","t",":">> >>

\* the loop over prefixes_to_remove, from the i-th prefix on
RECURSIVE RemovePrefixes(_, _)
RemovePrefixes(cleaned, i) ==
  IF i > Len(prefixes_to_remove) THEN cleaned
  ELSE IF StartsWith(LowerStr(cleaned), LowerStr(prefixes_to_remove[i]))
       THEN RemovePrefixes(Strip(DropFirst(cleaned, Len(prefixes_to_remove[i]))), i + 1)
       ELSE RemovePrefixes(cleaned, i + 1)

\* the Markdown code block step of GeminiDirectCLIProvider._clean_response
RemoveFence(cleaned) ==
  IF StartsWith(cleaned, <<"U+0060","U+0060","U+0060">>) /\ EndsWith(cleaned, <<"U+0060","U+0060","U+0060">>)
  THEN LET lines == Split(cleaned)
       IN  IF Len(lines) > 2
           THEN Strip(Join(SubSeq(lines, 2, Len(lines) - 1)))
           ELSE cleaned
  ELSE cleaned

\* the quote step of GeminiDirectCLIProvider._clean_response
RemoveQuotes(cleaned) ==
  IF \/ StartsWith(cleaned, <<"\"">>) /\ EndsWith(cleaned, <<"\"">>)
     \/ StartsWith(cleaned, <<"U+0027">>) /\ EndsWith(cleaned, <<"U+0027">>)
  THEN Strip(DropEnds(cleaned))
  ELSE cleaned

\* GeminiDirectCLIProvider._clean_response
GeminiDirect_clean_response(response) ==
  RemoveQuotes(RemoveFence(RemovePrefixes(Strip(response), 1)))

\* the line prefixes GeminiNativeCLIProvider._clean_response skips
NativeNoisePrefixes ==
  {<<"L","o","a","d","e","d"," ","c","a","c","h","e","d"," ","c","r","e","d","e","n","t","i","a","l","s">>, <<"E","r","r","o","r"," ","e","x","e","c","u","t","i","n","g"," ","t","o","o","l">>, <<"T","o","o","l"," ","\"">>,
   <<"D","i","d"," ","y","o","u"," ","m","e","a","n"," ","o","n","e"," ","o","f",":">>}

\* the stripped lines GeminiNativeCLIProvider._clean_response keeps
ContentLines(lines) ==
  SelectSeq([i \in 1..Len(lines) |-> Strip(lines[i])],
            LAMBDA line : /\ \A n \in NativeNoisePrefixes : ~StartsWith(line, n)
                          /\ line # <<>>)

\* GeminiNativeCLIProvider._clean_response
GeminiNative_clean_response(response) ==
  LET cleaned == Strip(response)
      content_lines == ContentLines(Split(cleaned))
  IN  IF content_lines # <<>> THEN content_lines[1] ELSE cleaned

\* _clean_response of a provider class
_clean_response(cls, response) ==
  IF cls = "GeminiDirectCLIProvider" THEN GeminiDirect_clean_response(response)
  ELSE GeminiNative_clean_response(response)

\* ------------------------------------------------------------------------
\* Provider construction (claude_code_provider.py, gemini_direct_cli_provider.py,
\* gemini_native_cli_provider.py).  The file system is a function from the
\* paths that exist to [is_file, x_ok, realpath]; the search path is a list
\* of directories.
\* ------------------------------------------------------------------------

\* the CLI provider classes
ProviderClasses ==
  {"ClaudeCodeProvider", "GeminiDirectCLIProvider", "GeminiNativeCLIProvider"}

\* os.path.join(dir, name)
JoinPath(dir, name) == dir \o <<"/">> \o name

\* os.path.basename(path), Path(path).name
basename(path) == DropFirst(path, Max({0} \cup {i \in 1..Len(path) : path[i] = "/"}))

\* Path(path).is_file()
is_file(fs, path) == path \in DOMAIN fs /\ fs[path].is_file

\* os.access(path, os.X_OK)
access_x_ok(fs, path) == path \in DOMAIN fs /\ fs[path].x_ok

\* str(Path(path).resolve())
resolve(fs, path) == IF path \in DOMAIN fs THEN fs[path].realpath ELSE path

\* no path
NoPath == <<>>

\* shutil.which(name): the first directory of the search path that holds an
\* executable file of that name
which(fs, path_dirs, name) ==
  LET hits == {i \in 1..Len(path_dirs) :
                 /\ is_file(fs, JoinPath(path_dirs[i], name))
                 /\ access_x_ok(fs, JoinPath(path_dirs[i], name))}
  IN  IF hits = {} THEN NoPath ELSE JoinPath(path_dirs[Min(hits)], name)

\* ALLOWED_BINARIES of a provider class
ALLOWED_BINARIES(cls) ==
  IF cls = "ClaudeCodeProvider" THEN {<<"c","l","a","u","d","e","-","c","o","d","e">>, <<"c","l","a","u","d","e">>}
  ELSE IF cls = "GeminiDirectCLIProvider" THEN {<<"g","e","m","i","n","i">>, <<"g","e","m","i","n","i","-","w","r","a","p","p","e","r",".","s","h">>}
  ELSE {<<"g","e","m","i","n","i">>}

\* DEFAULT_TIMEOUT of a provider class
DEFAULT_TIMEOUT(cls) == IF cls = "ClaudeCodeProvider" THEN 45 ELSE 30

\* MAX_TIMEOUT of a provider class
MAX_TIMEOUT(cls) == IF cls = "ClaudeCodeProvider" THEN 600 ELSE 300

\* explicit_paths of ClaudeCodeProvider._verify_claude_code_binary
explicit_paths == <<
  <<"/","u","s","r","/","l","o","c","a","l","/","b","i","n","/","c","l","a","u","d","e","-","c","o","d","e">>,
  <<"/","u","s","r","/","b","i","n","/","c","l","a","u","d","e","-","c","o","d","e">>,
  <<"/","o","p","t","/","c","l","a","u","d","e","-","c","o","d","e","/","b","i","n","/","c","l","a","u","d","e","-","c","o","d","e">>,
  <<"/","u","s","r","/","l","o","c","a","l","/","b","i","n","/","c","l","a","u","d","e">>,
  <<"/","u","s","r","/","b","i","n","/","c","l","a","u","d","e">> >>

\* binary_candidates of ClaudeCodeProvider._verify_claude_code_binary
binary_candidates == <<<<"c","l","a","u","d","e","-","c","o","d","e">>, <<"c","l","a","u","d","e">>>>

\* ClaudeCodeProvider._verify_binary_security: TRUE when it returns, FALSE
\* when it raises ProviderError
Claude_verify_binary_security(fs, binary_path) ==
  LET resolved_path == resolve(fs, binary_path)
  IN  /\ is_file(fs, binary_path)
      /\ access_x_ok(fs, binary_path)
      /\ basename(resolved_path) \in ALLOWED_BINARIES("ClaudeCodeProvider")
      /\ ~ContainsAny(resolved_path, {<<"/","t","m","p","/">>, <<"/","v","a","r","/","t","m","p","/">>})

\* the path ClaudeCodeProvider._verify_claude_code_binary settles on before
\* it verifies it, NoPath when there is none
Claude_find_binary(fs, path_dirs) ==
  LET explicit == {i \in 1..Len(explicit_paths) :
                     is_file(fs, explicit_paths[i]) /\ access_x_ok(fs, explicit_paths[i])}
      found == {i \in 1..Len(binary_candidates) :
                  LET candidate == which(fs, path_dirs, binary_candidates[i])
                  IN  candidate # NoPath /\ access_x_ok(fs, candidate)}
  IN  IF explicit # {} THEN explicit_paths[Min(explicit)]
      ELSE IF found # {} THEN which(fs, path_dirs, binary_candidates[Min(found)])
      ELSE NoPath

\* ClaudeCodeProvider._verify_claude_code_binary: the verified path, NoPath
\* when it raises ProviderError
_verify_claude_code_binary(fs, path_dirs) ==
  LET claude_code_path == Claude_find_binary(fs, path_dirs)
  IN  IF claude_code_path = NoPath THEN NoPath
      ELSE IF Claude_verify_binary_security(fs, claude_code_path) THEN claude_code_path
      ELSE NoPath

\* Path.home()
HomeDir == <<"/","h","o","m","e","/","u">>

\* GeminiDirectCLIProvider._verify_gemini_binary: the path, NoPath when it
\* raises ProviderError
GeminiDirect_verify_gemini_binary(fs, path_dirs) ==
  LET wrapper_path == JoinPath(JoinPath(HomeDir, <<"b","i","n">>), <<"g","e","m","i","n","i","-","w","r","a","p","p","e","r",".","s","h">>)
      gemini_path == which(fs, path_dirs, <<"g","e","m","i","n","i">>)
  IN  IF is_file(fs, wrapper_path) /\ access_x_ok(fs, wrapper_path) THEN wrapper_path
      ELSE IF gemini_path = NoPath THEN NoPath
      ELSE IF basename(gemini_path) \notin ALLOWED_BINARIES("GeminiDirectCLIProvider") THEN NoPath
      ELSE gemini_path

\* GeminiNativeCLIProvider._is_safe_binary_path
_is_safe_binary_path(fs, path) ==
  ~ContainsAny(resolve(fs, path),
               {<<"/","t","m","p","/">>, <<"/","v","a","r","/","t","m","p","/">>, <<"/","d","e","v","/">>, <<"/","p","r","o","c","/">>, <<".",".">>, <<"~">>, <<"$">>})

\* GeminiNativeCLIProvider._verify_gemini_binary: the path, NoPath when it
\* raises ProviderError
GeminiNative_verify_gemini_binary(fs, path_dirs) ==
  LET gemini_path == which(fs, path_dirs, <<"g","e","m","i","n","i">>)
  IN  IF gemini_path = NoPath THEN NoPath
      ELSE IF ~_is_safe_binary_path(fs, gemini_path) THEN NoPath
      ELSE IF ~access_x_ok(fs, gemini_path) THEN NoPath
      ELSE gemini_path

\* the binary verification of a provider class
VerifyBinary(cls, fs, path_dirs) ==
  IF cls = "ClaudeCodeProvider" THEN _verify_claude_code_binary(fs, path_dirs)
  ELSE IF cls = "GeminiDirectCLIProvider" THEN GeminiDirect_verify_gemini_binary(fs, path_dirs)
  ELSE GeminiNative_verify_gemini_binary(fs, path_dirs)

\* A configuration is [has_model, model_name, timeout_kind, timeout, api_key]:
\* timeout_kind is "unset" (no 'timeout' key), "int" or "text" (a value int()
\* rejects); api_key is the empty text when there is none.

\* the model name __init__ stores
ModelOf(cls, config) ==
  IF config.has_model THEN config.model_name
  ELSE IF cls = "ClaudeCodeProvider" THEN <<"c","l","a","u","d","e","-","3","-","5","-","s","o","n","n","e","t","-","2","0","2","4","1","0","2","2">>
  ELSE <<"g","e","m","i","n","i","-","1",".","5","-","p","r","o">>

\* BaseProvider.validate_config with get_required_config_fields of the class;
\* ClaudeCodeProvider.__init__ sets a missing model_name before it
Base_validate_config(cls, config) ==
  IF cls = "GeminiNativeCLIProvider" THEN TRUE
  ELSE IF cls = "ClaudeCodeProvider" THEN ModelOf(cls, config) # <<>>
  ELSE config.has_model /\ config.model_name # <<>>

\* GeminiDirectCLIProvider.validate_config
GeminiDirect_validate_config(config) ==
  /\ Base_validate_config("GeminiDirectCLIProvider", config)
  /\ config.timeout_kind # "text"
  /\ LET timeout_int == IF config.timeout_kind = "unset"
                        THEN DEFAULT_TIMEOUT("GeminiDirectCLIProvider")
                        ELSE config.timeout
     IN  ~(timeout_int <= 0 \/ timeout_int > MAX_TIMEOUT("GeminiDirectCLIProvider"))

\* validate_config of a provider class
validate_config(cls, config) ==
  IF cls = "GeminiDirectCLIProvider" THEN GeminiDirect_validate_config(config)
  ELSE Base_validate_config(cls, config)

\* int(config.get('timeout', self.DEFAULT_TIMEOUT)) when int() accepts it
ConfiguredTimeout(cls, config) ==
  IF config.timeout_kind = "int" THEN config.timeout ELSE DEFAULT_TIMEOUT(cls)

\* self.cli_timeout as __init__ computes it
CliTimeout(cls, config) ==
  IF cls = "ClaudeCodeProvider"
  THEN MinInt(ConfiguredTimeout(cls, config), MAX_TIMEOUT(cls))
  ELSE MinInt(MaxInt(ConfiguredTimeout(cls, config), 1), MAX_TIMEOUT(cls))

\* a provider that does not exist: state is "new" before __init__ and
\* "failed" when __init__ raised exc
NoProvider(cls, state, exc) ==
  [cls |-> cls, state |-> state, exc |-> exc, binary_path |-> NoPath,
   model |-> <<>>, cli_timeout |-> 0, api_key |-> <<>>]

\* __init__ of a provider class: the instance (binary_path is
\* claude_code_path or gemini_path), or the exception it raises
__init__(cls, config, fs, path_dirs) ==
  IF ~validate_config(cls, config) THEN NoProvider(cls, "failed", "ProviderError")
  ELSE IF cls # "ClaudeCodeProvider" /\ config.timeout_kind = "text"
       THEN NoProvider(cls, "failed", "ValueError")
  ELSE IF VerifyBinary(cls, fs, path_dirs) = NoPath
       THEN NoProvider(cls, "failed", "ProviderError")
  ELSE [cls |-> cls, state |-> "ready", exc |-> "none",
        binary_path |-> VerifyBinary(cls, fs, path_dirs),
        model |-> ModelOf(cls, config),
        cli_timeout |-> CliTimeout(cls, config),
        api_key |-> IF cls = "GeminiDirectCLIProvider" THEN config.api_key ELSE <<>>]

\* ------------------------------------------------------------------------
\* Child processes and exceptions
\* ------------------------------------------------------------------------

\* How a subprocess.run call ends: the child exits (returncode, stdout,
\* stderr), the deadline expires (subprocess.TimeoutExpired) or the child
\* cannot be started (OSError).
ChildExit(returncode, stdout, stderr) ==
  [event |-> "exit", returncode |-> returncode, stdout |-> stdout, stderr |-> stderr]

ChildTimeout == [event |-> "timeout", returncode |-> 0, stdout |-> <<>>, stderr |-> <<>>]

ChildLaunchFailure == [event |-> "oserror", returncode |-> 0, stdout |-> <<>>, stderr |-> <<>>]

\* input=None of subprocess.run: nothing is written to stdin
NoInput == <<"None">>

\* a subprocess.run call: its arguments.  env is the environment the child
\* gets: the env argument, or os.environ when no env argument is passed.
ProcessRequest(argv, input, env, shell, timeout) ==
  [argv |-> argv, input |-> input, env |-> env, shell |-> shell, timeout |-> timeout]

\* how a function ends: it returns value, or raises the exception exc, whose
\* message is named by msg (a CalledProcessError carries returncode, stdout
\* and stderr)
Return(value) ==
  [kind |-> "return", exc |-> "none", msg |-> "none", value |-> value,
   returncode |-> 0, stdout |-> <<>>, stderr |-> <<>>]

RaiseMsg(exc, msg) ==
  [kind |-> "raise", exc |-> exc, msg |-> msg, value |-> <<>>,
   returncode |-> 0, stdout |-> <<>>, stderr |-> <<>>]

Raise(exc) == RaiseMsg(exc, "other")

CalledProcessError(returncode, stdout, stderr) ==
  [kind |-> "raise", exc |-> "CalledProcessError", msg |-> "other", value |-> <<>>,
   returncode |-> returncode, stdout |-> stdout, stderr |-> stderr]

\* the values True and False as returned texts
PyTrue == <<"True">>

PyFalse == <<"False">>

\* class ProviderError and its subclasses (base_provider.py)
ProviderErrors ==
  {"ProviderError", "AuthenticationError", "ProviderTimeoutError", "ResponseError"}

\* s.replace(old, new)
RECURSIVE Replace(_, _, _)
Replace(s, old, new) ==
  LET at == {i \in 1..(Len(s) - Len(old) + 1) : LitAt(s, i, old)}
  IN  IF old = <<>> \/ at = {} THEN s
      ELSE SubSeq(s, 1, Min(at) - 1) \o new
           \o Replace(DropFirst(s, Min(at) + Len(old) - 1), old, new)

\* the unit 1024 of the prompt limits, scaled down
KiB == 4

\* 8192, the prompt size in bytes above which the Gemini providers use stdin
PromptArgLimit == 8 * KiB

\* ------------------------------------------------------------------------
\* ClaudeCodeProvider calls
\* ------------------------------------------------------------------------

\* max_prompt_length of ClaudeCodeProvider._sanitize_input (100000), scaled
max_prompt_length == 25 * KiB

\* ClaudeCodeProvider._sanitize_input
_sanitize_input(input_text) ==
  LET sanitized == SelectSeq(Strip(input_text), LAMBDA c : c # "\\x00")
  IN  IF Len(sanitized) > max_prompt_length
      THEN SubSeq(sanitized, 1, max_prompt_length)
      ELSE sanitized

\* safe_vars of ClaudeCodeProvider._create_safe_environment
Claude_safe_vars ==
  {"PATH", "HOME", "USER", "CLAUDE_API_KEY", "ANTHROPIC_API_KEY", "LANG", "LC_ALL", "NO_COLOR"}

\* excluded_vars of _create_safe_environment
excluded_vars == {"SHELL", "PS1", "PS2"}

\* ClaudeCodeProvider._create_safe_environment
Claude_create_safe_environment(environ) ==
  [var \in (Claude_safe_vars \cap DOMAIN environ) \ excluded_vars |->
     IF var = "NO_COLOR" THEN "1" ELSE environ[var]]

\* help_output of _detect_binary_and_build_args: stdout + stderr of the
\* --help child, empty when that child timed out or could not be started
HelpOutput(help) == IF help.event = "exit" THEN help.stdout \o help.stderr ELSE <<>>

\* ClaudeCodeProvider._detect_binary_and_build_args: the command arguments
_detect_binary_and_build_args(self, help) ==
  LET binary_name == basename(self.binary_path)
      help_lower == LowerStr(HelpOutput(help))
      print_flag == IF Contains(help_lower, <<"-","p",","," ","-","-","p","r","i","n","t">>) \/ Contains(help_lower, <<"-","-","p","r","i","n","t">>)
                    THEN <<<<"-","-","p","r","i","n","t">>>>
                    ELSE IF Contains(help_lower, <<"-","p">>) THEN <<<<"-","p">>>> ELSE <<>>
      output_format == IF Contains(help_lower, <<"-","-","o","u","t","p","u","t","-","f","o","r","m","a","t">>)
                       THEN <<<<"-","-","o","u","t","p","u","t","-","f","o","r","m","a","t">>, <<"t","e","x","t">>>> ELSE <<>>
      model_flag == IF Contains(help_lower, <<"-","-","m","o","d","e","l">>)
                    THEN <<<<"-","-","m","o","d","e","l">>, self.model>> ELSE <<>>
      chat == IF Contains(help_lower, <<"c","h","a","t">>) \/ binary_name = <<"c","l","a","u","d","e","-","c","o","d","e">>
              THEN <<<<"c","h","a","t">>>> ELSE <<>>
  IN  <<self.binary_path>> \o chat \o model_flag \o print_flag \o output_format

\* the subprocess.run call of _detect_binary_and_build_args: no env argument
Claude_help_request(self, environ) ==
  ProcessRequest(<<self.binary_path, <<"-","-","h","e","l","p">>>>, NoInput, environ, FALSE, 10)

\* the subprocess.run call of _execute_claude_code_command
Claude_request(self, prompt, environ, help) ==
  ProcessRequest(_detect_binary_and_build_args(self, help), _sanitize_input(prompt),
                 Claude_create_safe_environment(environ), FALSE, self.cli_timeout)

\* Claude_check_result with the exit code looked at only when stderr is
\* not blank
Claude_check_result_stderr_only(result) ==
  LET stdout == _truncate_output(result.stdout, MAX_STDOUT_SIZE("ClaudeCodeProvider"), <<"s","t","d","o","u","t">>)
      stderr == _truncate_output(result.stderr, MAX_STDERR_SIZE("ClaudeCodeProvider"), <<"s","t","d","e","r","r">>)
      error_msg == LowerStr(Strip(stderr))
      response == Strip(stdout)
  IN  IF result.returncode # 0 /\ error_msg # <<>>
      THEN IF ContainsAny(error_msg, {<<"l","o","g","i","n">>, <<"a","u","t","h","e","n","t","i","c","a","t","i","o","n">>, <<"a","u","t","h">>, <<"u","n","a","u","t","h","o","r","i","z","e","d">>})
           THEN RaiseMsg("AuthenticationError", "authentication")
           ELSE IF ContainsAny(error_msg, {<<"r","a","t","e"," ","l","i","m","i","t">>, <<"q","u","o","t","a">>, <<"l","i","m","i","t"," ","e","x","c","e","e","d","e","d">>})
           THEN RaiseMsg("ProviderError", "rate_limit")
           ELSE RaiseMsg("ProviderError", "exit_code")
      ELSE IF response = <<>> THEN RaiseMsg("ResponseError", "empty_response")
      ELSE Return(response)

\* _execute_claude_code_command after a child that exited; the default text
\* of error_msg for an empty stderr holds none of the keywords
Claude_check_result(result) ==
  LET stdout == _truncate_output(result.stdout, MAX_STDOUT_SIZE("ClaudeCodeProvider"), <<"s","t","d","o","u","t">>)
      stderr == _truncate_output(result.stderr, MAX_STDERR_SIZE("ClaudeCodeProvider"), <<"s","t","d","e","r","r">>)
      error_msg == LowerStr(Strip(stderr))
      response == Strip(stdout)
  IN  IF result.returncode # 0
      THEN IF ContainsAny(error_msg, {<<"l","o","g","i","n">>, <<"a","u","t","h","e","n","t","i","c","a","t","i","o","n">>, <<"a","u","t","h">>, <<"u","n","a","u","t","h","o","r","i","z","e","d">>})
           THEN RaiseMsg("AuthenticationError", "authentication")
           ELSE IF ContainsAny(error_msg, {<<"r","a","t","e"," ","l","i","m","i","t">>, <<"q","u","o","t","a">>, <<"l","i","m","i","t"," ","e","x","c","e","e","d","e","d">>})
           THEN RaiseMsg("ProviderError", "rate_limit")
           ELSE RaiseMsg("ProviderError", "exit_code")
      ELSE IF response = <<>> THEN RaiseMsg("ResponseError", "empty_response")
      ELSE Return(response)

\* ClaudeCodeProvider._execute_claude_code_command, given how its child
\* ends.  _detect_binary_and_build_args catches what its own child raises,
\* so the fallback arguments are never used.
_execute_claude_code_command(result) ==
  IF result.event = "timeout" THEN RaiseMsg("ProviderTimeoutError", "timeout")
  ELSE IF result.event = "oserror" THEN RaiseMsg("ProviderError", "launch")
  ELSE Claude_check_result(result)

\* ClaudeCodeProvider.generate_commit_message: how the call ends.  Every
\* exception of _execute_claude_code_command is a ProviderError, which is
\* re-raised as it is.
Claude_generate_commit_message(diff, prompt_template, result) ==
  IF IsBlank(diff) THEN RaiseMsg("ProviderError", "empty_diff")
  ELSE IF IsBlank(prompt_template) THEN RaiseMsg("ProviderError", "bad_template")
  ELSE LET r == _execute_claude_code_command(result)
       IN  IF r.kind = "return" /\ IsBlank(r.value)
           THEN RaiseMsg("ResponseError", "empty_response") ELSE r

\* Claude_generate_spawned without the --help child
Claude_generate_spawned_no_probe(self, diff, prompt_template, environ, help) ==
  IF IsBlank(diff) \/ IsBlank(prompt_template) THEN <<>>
  ELSE <<Claude_request(self, Replace(prompt_template, <<"$","d","i","f","f">>, diff), environ, help)>>

\* the subprocess.run calls of ClaudeCodeProvider.generate_commit_message
Claude_generate_spawned(self, diff, prompt_template, environ, help) ==
  IF IsBlank(diff) \/ IsBlank(prompt_template) THEN <<>>
  ELSE <<Claude_help_request(self, environ),
         Claude_request(self, Replace(prompt_template, <<"$","d","i","f","f">>, diff), environ, help)>>

\* test_prompt of ClaudeCodeProvider.test_connection
Claude_test_prompt == <<"H","e","l","l","o",","," ","t","h","i","s"," ","i","s"," ","a"," ","c","o","n","n","e","c","t","i","o","n"," ","t","e","s","t","."," ","P","l","e","a","s","e"," ","r","e","s","p","o","n","d"," ","w","i","t","h"," ","j","u","s","t"," ","U+0027","O","K","U+0027",".">>

\* ClaudeCodeProvider.test_connection: how the call ends
Claude_test_connection(result) ==
  LET r == _execute_claude_code_command(result)
  IN  IF r.kind = "return"
      THEN IF Contains(LowerStr(Strip(r.value)), <<"o","k">>) THEN Return(PyTrue) ELSE Return(PyFalse)
      ELSE IF r.exc = "AuthenticationError" THEN r
      ELSE RaiseMsg("ProviderError", "connection_test")

\* the subprocess.run calls of ClaudeCodeProvider.test_connection
Claude_test_spawned(self, environ, help) ==
  <<Claude_help_request(self, environ),
    Claude_request(self, Claude_test_prompt, environ, help)>>

\* ------------------------------------------------------------------------
\* GeminiDirectCLIProvider calls
\* ------------------------------------------------------------------------

\* cmd of _execute_with_tempfile and _execute_with_args before the prompt
GeminiDirect_base_cmd(self) ==
  <<self.binary_path>>
  \o (IF self.model # <<"g","e","m","i","n","i","-","1",".","5","-","p","r","o">> THEN <<<<"-","m">>, self.model>> ELSE <<>>)

\* os.environ.copy() with the API key variables set when there is an API key
GeminiDirect_env(self, environ, keys) ==
  IF self.api_key # <<>>
  THEN [var \in DOMAIN environ \cup keys |-> IF var \in keys THEN "api_key" ELSE environ[var]]
  ELSE environ

\* prompt_size > 8192 of _execute_gemini_command
use_tempfile(prompt) == ByteLen(prompt) > PromptArgLimit

\* the subprocess.run call of _execute_with_tempfile or _execute_with_args
GeminiDirect_request(self, prompt, timeout, environ) ==
  IF use_tempfile(prompt)
  THEN ProcessRequest(GeminiDirect_base_cmd(self), prompt,
         GeminiDirect_env(self, environ, {"GEMINI_API_KEY", "GOOGLE_API_KEY", "OPENAI_API_KEY"}),
         FALSE, timeout)
  ELSE ProcessRequest(GeminiDirect_base_cmd(self) \o <<<<"-","-","p","r","o","m","p","t">>, prompt>>, NoInput,
         GeminiDirect_env(self, environ, {"GEMINI_API_KEY", "GOOGLE_API_KEY"}),
         FALSE, timeout)

\* GeminiDirectCLIProvider._execute_with_tempfile, given how its child ends
_execute_with_tempfile(result) ==
  IF result.event = "timeout" THEN Raise("TimeoutExpired")
  ELSE IF result.event = "oserror" THEN Raise("OSError")
  ELSE IF result.returncode # 0
       THEN CalledProcessError(result.returncode, result.stdout, result.stderr)
  ELSE Return(result.stdout)

\* the lines _execute_with_args keeps of a stdout that holds the API error
\* phrase
GeminiDirect_valid_lines(stdout_content) ==
  LET cleaned_output == Strip(Replace(stdout_content, <<"E","r","r","o","r"," ","w","h","e","n"," ","t","a","l","k","i","n","g"," ","t","o"," ","G","e","m","i","n","i"," ","A","P","I">>, <<>>))
  IN  SelectSeq(Split(cleaned_output),
                LAMBDA line : /\ ~IsBlank(line)
                              /\ ~StartsWith(line, <<"L","o","a","d","e","d"," ","c","a","c","h","e","d"," ","c","r","e","d","e","n","t","i","a","l","s">>)
                              /\ ~Contains(line, <<"F","u","l","l"," ","r","e","p","o","r","t"," ","a","v","a","i","l","a","b","l","e">>))

\* GeminiDirectCLIProvider._execute_with_args, given how its child ends.  The
\* raise statement of the quota branch names a variable e that does not
\* exist there, so that branch raises NameError.
_execute_with_args(result) ==
  IF result.event = "timeout" THEN Raise("TimeoutExpired")
  ELSE IF result.event = "oserror" THEN Raise("OSError")
  ELSE IF result.returncode # 0
       THEN IF Contains(Strip(result.stdout), <<"E","r","r","o","r"," ","w","h","e","n"," ","t","a","l","k","i","n","g"," ","t","o"," ","G","e","m","i","n","i"," ","A","P","I">>)
            THEN IF GeminiDirect_valid_lines(Strip(result.stdout)) # <<>>
                 THEN Return(Join(GeminiDirect_valid_lines(Strip(result.stdout))))
                 ELSE Raise("NameError")
            ELSE CalledProcessError(result.returncode, result.stdout, result.stderr)
  ELSE Return(result.stdout)

\* GeminiDirectCLIProvider._execute_gemini_command, given how its child ends
GeminiDirect_execute_gemini_command(prompt, result) ==
  IF use_tempfile(prompt) THEN _execute_with_tempfile(result) ELSE _execute_with_args(result)

\* GeminiDirectCLIProvider._validate_response
GeminiDirect_validate_response(response) ==
  /\ ~IsBlank(response)
  /\ ~(Len(response) > MAX_STDOUT_SIZE("GeminiDirectCLIProvider"))

\* the except subprocess.CalledProcessError clause of
\* GeminiDirectCLIProvider.generate_commit_message
GeminiDirect_called_process_error(e) ==
  LET stderr_output == e.stderr
      stdout_output == e.stdout
      combined_output == LowerStr(stdout_output \o <<"\n">> \o stderr_output)
  IN  IF ContainsAny(combined_output,
                     {<<"q","u","o","t","a"," ","e","x","c","e","e","d","e","d">>, <<"4","2","9">>, <<"r","a","t","e"," ","l","i","m","i","t">>, <<"U+30AF","U+30A9","U+30FC","U+30BF","U+5236","U+9650">>, <<"U+30D5","U+30A9","U+30FC","U+30EB","U+30D0","U+30C3","U+30AF">>})
      THEN IF /\ (Contains(stderr_output, <<"U+30D5","U+30A9","U+30FC","U+30EB","U+30D0","U+30C3","U+30AF","U+6210","U+529F">>) \/ Contains(stdout_output, <<"U+30D5","U+30A9","U+30FC","U+30EB","U+30D0","U+30C3","U+30AF","U+6210","U+529F">>))
              /\ ~IsBlank(stdout_output)
           THEN Return(Strip(stdout_output))
           ELSE RaiseMsg("ProviderError", "rate_limit")
      ELSE IF Contains(combined_output, <<"a","u","t","h","e","n","t","i","c","a","t","i","o","n">>) \/ Contains(combined_output, <<"a","p","i"," ","k","e","y">>)
      THEN RaiseMsg("AuthenticationError", "authentication")
      ELSE IF ContainsAny(combined_output, {<<"n","e","t","w","o","r","k">>, <<"c","o","n","n","e","c","t","i","o","n">>, <<"c","o","n","n","e","c","t","i","v","i","t","y">>})
      THEN RaiseMsg("ProviderError", "network")
      ELSE IF ContainsAny(combined_output, {<<"t","i","m","e","o","u","t">>, <<"t","i","m","e","d"," ","o","u","t">>})
      THEN RaiseMsg("ProviderTimeoutError", "timeout_text")
      ELSE IF Contains(combined_output, <<"e","r","r","o","r"," ","w","h","e","n"," ","t","a","l","k","i","n","g"," ","t","o"," ","g","e","m","i","n","i"," ","a","p","i">>)
      THEN IF ~IsBlank(stdout_output) THEN Return(Strip(stdout_output))
           ELSE RaiseMsg("ProviderError", "api_error")
      ELSE IF e.returncode = 1 /\ IsBlank(stdout_output)
      THEN RaiseMsg("AuthenticationError", "exit_code_1")
      ELSE RaiseMsg("ProviderError", "exit_code")

\* GeminiDirect_except without the clause for subprocess.TimeoutExpired
GeminiDirect_except_generic(r) ==
  IF r.exc \in ProviderErrors THEN r
  ELSE IF r.exc = "CalledProcessError" THEN GeminiDirect_called_process_error(r)
  ELSE RaiseMsg("ProviderError", "unexpected")

\* the except clauses of GeminiDirectCLIProvider.generate_commit_message
GeminiDirect_except(r) ==
  IF r.exc \in ProviderErrors THEN r
  ELSE IF r.exc = "TimeoutExpired" THEN RaiseMsg("ProviderTimeoutError", "timeout")
  ELSE IF r.exc = "CalledProcessError" THEN GeminiDirect_called_process_error(r)
  ELSE RaiseMsg("ProviderError", "unexpected")

\* the prompt of GeminiDirectCLIProvider.generate_commit_message
GeminiDirect_prompt(diff, prompt_template) ==
  Replace(Replace(prompt_template, <<"{","d","i","f","f","}">>, diff), <<"$","d","i","f","f">>, diff)

\* GeminiDirectCLIProvider.generate_commit_message: how the call ends
GeminiDirect_generate_commit_message(diff, prompt_template, result) ==
  LET r == GeminiDirect_execute_gemini_command(GeminiDirect_prompt(diff, prompt_template), result)
  IN  IF r.kind = "return"
      THEN IF ~GeminiDirect_validate_response(r.value)
           THEN RaiseMsg("ResponseError", "invalid_response")
           ELSE Return(GeminiDirect_clean_response(r.value))
      ELSE GeminiDirect_except(r)

\* test_prompt of GeminiDirectCLIProvider.test_connection
GeminiDirect_test_prompt == <<"H","e","l","l","o",","," ","r","e","s","p","o","n","d"," ","w","i","t","h"," ","U+0027","O","K","U+0027"," ","o","n","l","y",".">>

\* GeminiDirect_test_connection without the clause "except Exception"
GeminiDirect_test_connection_no_catch_all(result) ==
  LET r == GeminiDirect_execute_gemini_command(GeminiDirect_test_prompt, result)
  IN  IF r.kind = "return"
      THEN IF ~IsBlank(r.value) THEN Return(PyTrue) ELSE Return(PyFalse)
      ELSE IF r.exc = "TimeoutExpired" THEN RaiseMsg("ProviderTimeoutError", "timeout")
      ELSE IF r.exc = "CalledProcessError"
      THEN IF r.returncode = 1 THEN RaiseMsg("AuthenticationError", "exit_code_1")
           ELSE RaiseMsg("ProviderError", "exit_code")
      ELSE r

\* GeminiDirectCLIProvider.test_connection: how the call ends
GeminiDirect_test_connection(result) ==
  LET r == GeminiDirect_execute_gemini_command(GeminiDirect_test_prompt, result)
  IN  IF r.kind = "return"
      THEN IF ~IsBlank(r.value) THEN Return(PyTrue) ELSE Return(PyFalse)
      ELSE IF r.exc = "TimeoutExpired" THEN RaiseMsg("ProviderTimeoutError", "timeout")
      ELSE IF r.exc = "CalledProcessError"
      THEN IF r.returncode = 1 THEN RaiseMsg("AuthenticationError", "exit_code_1")
           ELSE RaiseMsg("ProviderError", "exit_code")
      ELSE RaiseMsg("ProviderError", "unexpected")

\* ------------------------------------------------------------------------
\* GeminiNativeCLIProvider calls
\* ------------------------------------------------------------------------

\* safe_vars of GeminiNativeCLIProvider._create_safe_environment
GeminiNative_safe_vars == {"PATH", "HOME", "USER", "LANG", "LC_ALL", "NO_COLOR"}

\* GeminiNativeCLIProvider._create_safe_environment
GeminiNative_create_safe_environment(environ) ==
  LET kept == (GeminiNative_safe_vars \cap DOMAIN environ) \ excluded_vars
  IN  [var \in kept \cup {"LC_ALL"} |->
         IF var \notin kept THEN "C.UTF-8"
         ELSE IF var = "NO_COLOR" THEN "1"
         ELSE environ[var]]

\* use_stdin with the limit itself sent to stdin (">=" for ">")
use_stdin_at_limit(prompt) == ByteLen(prompt) >= PromptArgLimit

\* use_stdin of GeminiNativeCLIProvider._execute_gemini_command
use_stdin(prompt) == ByteLen(prompt) > PromptArgLimit

\* GeminiNative_request with the command named instead of the verified path
GeminiNative_request_by_name(self, prompt, timeout, environ) ==
  IF use_stdin(prompt)
  THEN ProcessRequest(<<<<"g","e","m","i","n","i">>, <<"-","-","p","r","o","m","p","t">>, <<"-">>>>, prompt,
                      GeminiNative_create_safe_environment(environ), FALSE, timeout)
  ELSE ProcessRequest(<<<<"g","e","m","i","n","i">>, <<"-","-","p","r","o","m","p","t">>, prompt>>, NoInput,
                      GeminiNative_create_safe_environment(environ), FALSE, timeout)

\* the subprocess.run call of GeminiNativeCLIProvider._execute_gemini_command
GeminiNative_request(self, prompt, timeout, environ) ==
  IF use_stdin(prompt)
  THEN ProcessRequest(<<self.binary_path, <<"-","-","p","r","o","m","p","t">>, <<"-">>>>, prompt,
                      GeminiNative_create_safe_environment(environ), FALSE, timeout)
  ELSE ProcessRequest(<<self.binary_path, <<"-","-","p","r","o","m","p","t">>, prompt>>, NoInput,
                      GeminiNative_create_safe_environment(environ), FALSE, timeout)

\* GeminiNativeCLIProvider._execute_gemini_command, given how its child ends
GeminiNative_execute_gemini_command(result) ==
  IF result.event = "timeout" THEN RaiseMsg("ProviderTimeoutError", "timeout")
  ELSE IF result.event = "oserror" THEN RaiseMsg("ProviderError", "launch")
  ELSE IF Len(result.stdout) > MAX_STDOUT_SIZE("GeminiNativeCLIProvider")
       THEN RaiseMsg("ProviderError", "output_too_large")
  ELSE IF result.returncode # 0
       THEN IF \/ Contains(LowerStr(Strip(result.stderr)), <<"a","u","t","h">>)
               \/ Contains(LowerStr(Strip(result.stderr)), <<"c","r","e","d","e","n","t","i","a","l">>)
            THEN RaiseMsg("AuthenticationError", "authentication")
            ELSE RaiseMsg("ProviderError", "exit_code")
  ELSE Return(result.stdout)

\* GeminiNativeCLIProvider._validate_response
GeminiNative_validate_response(response) ==
  /\ ~IsBlank(response)
  /\ ~(Len(Strip(response)) < 3)

\* GeminiNativeCLIProvider.generate_commit_message: how the call ends
GeminiNative_generate_commit_message(result) ==
  LET r == GeminiNative_execute_gemini_command(result)
  IN  IF r.kind = "return"
      THEN IF ~GeminiNative_validate_response(r.value)
           THEN RaiseMsg("ResponseError", "invalid_response")
           ELSE Return(GeminiNative_clean_response(r.value))
      ELSE r

\* the prompt of GeminiNativeCLIProvider.test_connection
GeminiNative_test_prompt == <<"H","e","l","l","o">>

\* GeminiNativeCLIProvider.test_connection: how the call ends
GeminiNative_test_connection(result) ==
  LET r == GeminiNative_execute_gemini_command(result)
  IN  IF r.kind = "return" /\ ~IsBlank(r.value) THEN Return(PyTrue) ELSE Return(PyFalse)

\* ------------------------------------------------------------------------
\* The provider interface
\* ------------------------------------------------------------------------

\* the prompt generate_commit_message builds
PromptOf(cls, diff, prompt_template) ==
  IF cls = "GeminiDirectCLIProvider" THEN GeminiDirect_prompt(diff, prompt_template)
  ELSE Replace(prompt_template, <<"$","d","i","f","f">>, diff)

\* generate_commit_message of the provider: how the call ends, given how the
\* prompt-carrying child ends
generate_commit_message(self, diff, prompt_template, result) ==
  IF self.cls = "ClaudeCodeProvider"
  THEN Claude_generate_commit_message(diff, prompt_template, result)
  ELSE IF self.cls = "GeminiDirectCLIProvider"
  THEN GeminiDirect_generate_commit_message(diff, prompt_template, result)
  ELSE GeminiNative_generate_commit_message(result)

\* generate_spawned with the command of the Gemini providers started a
\* second time
generate_spawned_again(self, diff, prompt_template, environ, help) ==
  IF self.cls = "ClaudeCodeProvider"
  THEN Claude_generate_spawned(self, diff, prompt_template, environ, help)
  ELSE IF self.cls = "GeminiDirectCLIProvider"
  THEN <<GeminiDirect_request(self, PromptOf(self.cls, diff, prompt_template),
                              self.cli_timeout, environ),
         GeminiDirect_request(self, PromptOf(self.cls, diff, prompt_template),
                              self.cli_timeout, environ)>>
  ELSE <<GeminiNative_request(self, PromptOf(self.cls, diff, prompt_template),
                              self.cli_timeout, environ),
         GeminiNative_request(self, PromptOf(self.cls, diff, prompt_template),
                              self.cli_timeout, environ)>>

\* the subprocess.run calls of generate_commit_message, in order; help is how
\* the --help child of ClaudeCodeProvider ends
generate_spawned(self, diff, prompt_template, environ, help) ==
  IF self.cls = "ClaudeCodeProvider"
  THEN Claude_generate_spawned(self, diff, prompt_template, environ, help)
  ELSE IF self.cls = "GeminiDirectCLIProvider"
  THEN <<GeminiDirect_request(self, PromptOf(self.cls, diff, prompt_template),
                              self.cli_timeout, environ)>>
  ELSE <<GeminiNative_request(self, PromptOf(self.cls, diff, prompt_template),
                              self.cli_timeout, environ)>>

\* test_connection of the provider: how the call ends
test_connection(self, result) ==
  IF self.cls = "ClaudeCodeProvider" THEN Claude_test_connection(result)
  ELSE IF self.cls = "GeminiDirectCLIProvider" THEN GeminiDirect_test_connection(result)
  ELSE GeminiNative_test_connection(result)

\* the subprocess.run calls of test_connection, in order
test_spawned(self, environ, help) ==
  IF self.cls = "ClaudeCodeProvider" THEN Claude_test_spawned(self, environ, help)
  ELSE IF self.cls = "GeminiDirectCLIProvider"
  THEN <<GeminiDirect_request(self, GeminiDirect_test_prompt, 10, environ)>>
  ELSE <<GeminiNative_request(self, GeminiNative_test_prompt, 15, environ)>>

\* ------------------------------------------------------------------------
\* message_formatter.py.  A regular expression is a list of tokens
\* [t, v]: "lit" a literal, "set" one character of a set, "ws" a greedy run
\* of at least v whitespace characters (\s* and \s+), "opt" an optional
\* group (?:...)? and "alt" the alternatives of a group, leftmost first.
\* ------------------------------------------------------------------------

RLit(text) == [t |-> "lit", v |-> text]

RSet(chars) == [t |-> "set", v |-> chars]

RWs(least) == [t |-> "ws", v |-> least]

ROpt(tokens) == [t |-> "opt", v |-> tokens]

RAlt(alternatives) == [t |-> "alt", v |-> alternatives]

\* length of the run of whitespace that starts at position pos
RECURSIVE WsRun(_, _)
WsRun(text, pos) ==
  IF pos <= Len(text) /\ text[pos] \in Whitespace THEN 1 + WsRun(text, pos + 1) ELSE 0

\* the positions after the matches of the tokens at position pos, in the
\* order the backtracking matcher of re finds them (re.IGNORECASE)
RECURSIVE ReEnds(_, _, _)
RECURSIVE ReWsEnds(_, _, _, _, _)
RECURSIVE ReAltEnds(_, _, _, _)
ReEnds(tokens, text, pos) ==
  IF Len(tokens) = 0 THEN <<pos>>
  ELSE LET tok == Head(tokens)
           rest == Tail(tokens)
       IN  CASE tok.t = "lit" ->
                  IF ReLitAt(text, pos, tok.v)
                  THEN ReEnds(rest, text, pos + Len(tok.v)) ELSE <<>>
             [] tok.t = "set" ->
                  IF pos <= Len(text) /\ text[pos] \in tok.v
                  THEN ReEnds(rest, text, pos + 1) ELSE <<>>
             [] tok.t = "ws" -> ReWsEnds(rest, text, pos, WsRun(text, pos), tok.v)
             [] tok.t = "opt" -> ReEnds(tok.v \o rest, text, pos) \o ReEnds(rest, text, pos)
             [] tok.t = "alt" -> ReAltEnds(tok.v, rest, text, pos)

\* a greedy whitespace run: the longest run first, down to least characters
ReWsEnds(rest, text, pos, k, least) ==
  IF k < least THEN <<>>
  ELSE ReEnds(rest, text, pos + k) \o ReWsEnds(rest, text, pos, k - 1, least)

\* the alternatives of a group, leftmost first
ReAltEnds(alternatives, rest, text, pos) ==
  IF Len(alternatives) = 0 THEN <<>>
  ELSE ReEnds(Head(alternatives) \o rest, text, pos)
       \o ReAltEnds(Tail(alternatives), rest, text, pos)

\* re.sub(f'^\\s*{pattern}\\s*', '', message, count=1, flags=re.IGNORECASE)
re_sub_prefix(pattern, message) ==
  LET ends == ReEnds(<<RWs(0)>> \o pattern \o <<RWs(0)>>, message, 1)
  IN  IF Len(ends) = 0 THEN message ELSE DropFirst(message, ends[1] - 1)

\* s.replace(a, b) for characters a and b
ReplaceChar(s, a, b) == [i \in 1..Len(s) |-> IF s[i] = a THEN b ELSE s[i]]

\* s.replace('\r\n', '\n')
ReplaceCRLF(s) ==
  SelectSeq([i \in 1..Len(s) |->
               IF s[i] = "\r" /\ i < Len(s) /\ s[i + 1] = "\n" THEN "" ELSE s[i]],
            LAMBDA c : c # "")

\* re.sub(c + '+', c, s) for a character c
CollapseRuns(s, c) ==
  SelectSeq([i \in 1..Len(s) |-> IF s[i] = c /\ i > 1 /\ s[i - 1] = c THEN "" ELSE s[i]],
            LAMBDA x : x # "")

\* s.replace('\n', ' ').replace('\t', ' '), then re.sub(r' +', ' ', s).strip()
OneLine(s) == Strip(CollapseRuns(ReplaceChar(ReplaceChar(s, "\n", " "), "\t", " "), " "))

\* MessageFormatter._clean_message
_clean_message(message) ==
  CollapseRuns(
    ReplaceChar(
      CollapseRuns(ReplaceChar(ReplaceCRLF(Strip(message)), "\r", "\n"), "\n"),
      "\t", " "),
    " ")

\* position of the first occurrence of p in s from position from on, 0 if
\* there is none
FindFrom(s, p, from) ==
  LET at == {i \in from..(Len(s) - Len(p) + 1) : LitAt(s, i, p)}
  IN  IF at = {} THEN 0 ELSE Min(at)

\* re.sub of a pattern that matches from a delimiter to the next delimiter
\* (r'```[\s\S]*?```' and r'`[^`]*`'), replaced by ''
RECURSIVE RemoveDelimited(_, _)
RemoveDelimited(s, delimiter) ==
  LET open == FindFrom(s, delimiter, 1)
      close == IF open = 0 THEN 0 ELSE FindFrom(s, delimiter, open + Len(delimiter))
  IN  IF close = 0 THEN s
      ELSE SubSeq(s, 1, open - 1)
           \o RemoveDelimited(DropFirst(s, close + Len(delimiter) - 1), delimiter)

\* re.sub(r'\n\s*\n', '\n', s): from a newline to the last newline of the
\* whitespace that follows it
RECURSIVE CollapseBlankLines(_)
CollapseBlankLines(s) ==
  LET starts == {i \in 1..Len(s) :
                   /\ s[i] = "\n"
                   /\ \E j \in (i + 1)..(i + WsRun(s, i + 1)) : s[j] = "\n"}
  IN  IF starts = {} THEN s
      ELSE LET i == Min(starts)
               j == Max({k \in (i + 1)..(i + WsRun(s, i + 1)) : s[k] = "\n"})
           IN  SubSeq(s, 1, i) \o CollapseBlankLines(DropFirst(s, j))

\* prefix_patterns of MessageFormatter._extract_commit_message
prefix_patterns == <<
  <<RLit(<<"g","i","t">>), RWs(1), RLit(<<"c","o","m","m","i","t">>), RWs(1), RLit(<<"-","m">>)>>,
  <<ROpt(<<RLit(<<"s","u","g","g","e","s","t","e","d">>), RWs(1)>>), RLit(<<"c","o","m","m","i","t">>), RWs(1),
    RAlt(<<<<RLit(<<"m","e","s","s","a","g","e">>)>>, <<RLit(<<"m","e","s","s","a","g","e","s">>)>>, <<RLit(<<"m","s","g">>)>>>>),
    RWs(0), RSet({":", "-"})>>,
  <<RLit(<<"c","o","m","m","i","t">>), RWs(0), RSet({":", "-"})>>,
  <<ROpt(<<RLit(<<"h","e","r","e">>), RWs(1), RLit(<<"i","s">>), RWs(1), ROpt(<<RLit(<<"t","h","e">>), RWs(1)>>)>>),
    RLit(<<"c","o","m","m","i","t">>), RWs(1), RLit(<<"m","e","s","s","a","g","e">>), RWs(0), RSet({":", "-"})>>,
  <<ROpt(<<RLit(<<"h","e","r","e">>), RWs(1), RLit(<<"i","s">>), RWs(1), RLit(<<"y","o","u","r">>), RWs(1)>>),
    RLit(<<"c","o","m","m","i","t">>), RWs(1), RLit(<<"m","e","s","s","a","g","e">>), RWs(0), RSet({":", "-"})>>,
  <<RLit(<<"g","e","n","e","r","a","t","e","d">>), RWs(1), RLit(<<"c","o","m","m","i","t">>), RWs(1), RLit(<<"m","e","s","s","a","g","e">>), RWs(0),
    RSet({":", "-"})>>,
  <<RLit(<<"s","u","g","g","e","s","t","e","d">>), RWs(1), RLit(<<"m","e","s","s","a","g","e">>), RWs(0), RSet({":", "-"})>>,
  <<RLit(<<"U+30B3","U+30DF","U+30C3","U+30C8">>), ROpt(<<RLit(<<"U+30E1","U+30C3","U+30BB","U+30FC","U+30B8">>)>>), RWs(0), RSet({":", "-"})>> >>

\* the loop 'for pattern in prefix_patterns', from the i-th pattern on:
\* the text without the prefixes and the number of patterns that changed it
RECURSIVE StripPrefixes(_, _, _)
StripPrefixes(text, i, changed) ==
  IF i > Len(prefix_patterns) THEN [text |-> text, changed |-> changed]
  ELSE LET next == re_sub_prefix(prefix_patterns[i], text)
       IN  StripPrefixes(next, i + 1, IF next # text THEN changed + 1 ELSE changed)

\* triple_quotes of _extract_commit_message
triple_quotes == <<<<"\"","\"","\"">>, <<"U+0027","U+0027","U+0027">>>>

\* quote_pairs of _extract_commit_message
quote_pairs == <<
  <<"\"", "\"">>, <<"U+0027", "U+0027">>, <<"U+0060", "U+0060">>,
  <<"U+300C", "U+300D">>, <<"U+300E", "U+300F">>>>

\* the quote step of _extract_commit_message on the stripped message:
\* triple quotes first, then a pair of matching quotes, then an opening
\* quote alone or with another closing quote
StripQuotes(message) ==
  LET triple == {i \in 1..Len(triple_quotes) :
                   /\ StartsWith(message, triple_quotes[i])
                   /\ EndsWith(message, triple_quotes[i])
                   /\ Len(message) > 2 * Len(triple_quotes[i])}
      paired == {i \in 1..Len(quote_pairs) :
                   /\ StartsWith(message, <<quote_pairs[i][1]>>)
                   /\ EndsWith(message, <<quote_pairs[i][2]>>)
                   /\ Len(message) > 2}
      opening == {i \in 1..Len(quote_pairs) :
                    StartsWith(message, <<quote_pairs[i][1]>>) /\ Len(message) > 1}
      temp_message == Tail(message)
      closing == {i \in 1..Len(quote_pairs) :
                    EndsWith(temp_message, <<quote_pairs[i][2]>>) /\ Len(temp_message) > 1}
  IN  IF triple # {}
      THEN Strip(SubSeq(message, 4, Len(message) - 3))
      ELSE IF paired # {} THEN OneLine(Strip(DropEnds(message)))
      ELSE IF opening = {} THEN message
      ELSE IF closing # {}
      THEN OneLine(Strip(SubSeq(temp_message, 1, Len(temp_message) - 1)))
      ELSE OneLine(Strip(temp_message))

\* commit_words of _extract_commit_message
commit_words == {<<"a","d","d">>, <<"f","i","x">>, <<"u","p","d","a","t","e">>, <<"r","e","m","o","v","e">>, <<"r","e","f","a","c","t","o","r">>, <<"f","e","a","t">>, <<"c","h","o","r","e">>, <<"d","o","c","s">>}

\* the score of a line and the line without its prefixes
ScoredLine(line) ==
  LET stripped == StripPrefixes(line, 1, 0)
      clean_line == stripped.text
  IN  [clean_line |-> clean_line,
       score |-> 10 * stripped.changed
                 + (IF Len(clean_line) >= 10 THEN 5 ELSE IF Len(clean_line) >= 5 THEN 2 ELSE 0)
                 - (IF Contains(clean_line, <<":">>) THEN 3 ELSE 0)
                 + (IF ContainsAny(LowerStr(clean_line), commit_words) THEN 3 ELSE 0)]

\* the loop 'for line in lines' from the i-th line on: the first line with
\* the highest score above 0, '' if there is none
RECURSIVE BestLine(_, _, _, _)
BestLine(lines, i, best_line, best_score) ==
  IF i > Len(lines) THEN best_line
  ELSE LET scored == ScoredLine(lines[i])
       IN  IF scored.score > best_score
           THEN BestLine(lines, i + 1, scored.clean_line, scored.score)
           ELSE BestLine(lines, i + 1, best_line, best_score)

\* the line with tabs and runs of spaces normalised, cut after its first
\* sentence (re.match(r'^([^.!?]*[.!?])', line)) when it has one
FirstSentence(line) ==
  LET normalised == Strip(CollapseRuns(ReplaceChar(line, "\t", " "), " "))
      ends == {i \in 1..Len(normalised) : normalised[i] \in {".", "!", "?"}}
  IN  IF ends = {} THEN normalised
      ELSE Strip(CollapseRuns(ReplaceChar(Strip(SubSeq(normalised, 1, Min(ends))),
                                          "\t", " "), " "))

\* [line.strip() for line in message.split('\n') if line.strip()]
StrippedLines(message) ==
  SelectSeq([i \in 1..Len(Split(message)) |-> Strip(Split(message)[i])],
            LAMBDA line : line # <<>>)

\* MessageFormatter._extract_commit_message
_extract_commit_message(message) ==
  LET unfenced == RemoveDelimited(message, <<"U+0060","U+0060","U+0060">>)
      unprefixed == Strip(StripPrefixes(unfenced, 1, 0).text)
      uncoded == RemoveDelimited(StripQuotes(unprefixed), <<"U+0060">>)
      lines == StrippedLines(Strip(CollapseRuns(CollapseBlankLines(uncoded), "\n")))
      best_line == BestLine(lines, 1, <<>>, 0)
  IN  IF lines = <<>> THEN <<>>
      ELSE IF best_line # <<>> THEN FirstSentence(best_line)
      ELSE FirstSentence(lines[1])

\* str.isalnum() on one character
IsAlnum(c) ==
  \/ c \in DOMAIN LowerMap
  \/ c \in {LowerMap[u] : u \in DOMAIN LowerMap}
  \/ c \in {"0", "1", "2", "3", "4", "5", "6", "7", "8", "9"}
  \/ c \in {"U+30B3", "U+30DF", "U+30C3", "U+30C8", "U+30E1", "U+30BB", "U+30FC", "U+30B8"}

\* s.rfind(c), counted from 1: 0 when c is not in s
RFind(s, c) == Max({0} \cup {i \in 1..Len(s) : s[i] = c})

\* s.rstrip(chars)
RStrip(s, chars) == SubSeq(s, 1, Max({0} \cup {i \in 1..Len(s) : s[i] \notin chars}))

\* s[:n] for any integer n
SliceTo(s, n) ==
  IF n >= 0 THEN SubSeq(s, 1, MinInt(n, Len(s)))
  ELSE SubSeq(s, 1, MaxInt(Len(s) + n, 0))

\* int(limit * 0.7) in double arithmetic, for limit < 600
Int70(limit) ==
  IF limit \in {90, 170, 180, 330, 340, 350, 360}
  THEN (7 * limit) \div 10 - 1 ELSE (7 * limit) \div 10

\* _apply_length_limit with the whole of max_length used for the text
_apply_length_limit_no_reserve(self, message) ==
  IF Len(message) <= self.max_length THEN message
  ELSE SubSeq(message, 1, self.max_length) \o <<".",".",".">>

\* MessageFormatter._apply_length_limit
_apply_length_limit(self, message) ==
  IF Len(message) <= self.max_length THEN message
  ELSE IF self.max_length <= 3 THEN SubSeq(message, 1, self.max_length)
  ELSE LET limit == self.max_length - 3
           cut == SubSeq(message, 1, limit)
           original_truncated ==
             IF RFind(cut, " ") - 1 > Int70(limit)
             THEN RStrip(SubSeq(cut, 1, RFind(cut, " ") - 1), Whitespace)
             ELSE cut
           truncated == RStrip(original_truncated, {".", ",", "!", "?", ";", ":", " "})
           other == {i \in 1..Len(original_truncated) : ~IsAlnum(original_truncated[i])}
           safe_length == MinInt(Len(original_truncated) - 5, limit - 10)
       IN  (IF truncated # <<>> /\ IsAlnum(truncated[Len(truncated)])
            THEN IF RFind(original_truncated, " ") > 0
                 THEN SubSeq(original_truncated, 1, RFind(original_truncated, " "))
                 ELSE IF other # {} THEN SubSeq(original_truncated, 1, Max(other))
                 ELSE SliceTo(original_truncated, safe_length) \o <<" ">>
            ELSE truncated)
           \o <<".",".",".">>

\* MessageFormatter.__init__: the formatter, or the ValueError it raises
MessageFormatter(max_length, default_message) ==
  IF max_length < 1 THEN [state |-> "failed", exc |-> "ValueError"]
  ELSE [state |-> "ready", max_length |-> max_length, default_message |-> default_message]

\* MessageFormatter.format_response
format_response(self, raw_message) ==
  IF IsBlank(raw_message) THEN _apply_length_limit(self, self.default_message)
  ELSE LET commit_message == _extract_commit_message(_clean_message(raw_message))
       IN  IF IsBlank(commit_message)
           THEN _apply_length_limit(self, self.default_message)
           ELSE _apply_length_limit(self, commit_message)

\* ------------------------------------------------------------------------
\* State
\* ------------------------------------------------------------------------

VARIABLES
  cls_stdout,       \* classify_error: argument stdout
  cls_stderr,       \* classify_error: argument stderr
  cls_return_code,  \* classify_error: argument return_code
  cls_result,       \* classify_error: the ErrorAnalysisResult, NoResult before the call
  trunc_output,     \* _truncate_output: argument output
  trunc_max_size,   \* _truncate_output: argument max_size
  trunc_type,       \* _truncate_output: argument output_type
  trunc_done,       \* _truncate_output has returned
  trunc_result,     \* _truncate_output: the returned text
  clean_cls,        \* _clean_response: the provider class
  clean_input,      \* _clean_response: argument response
  clean_done,       \* _clean_response has returned
  clean_once,       \* _clean_response(response)
  clean_twice,      \* _clean_response(_clean_response(response))
  fs,               \* the file system: path -> [is_file, x_ok, realpath]
  os_environ,       \* os.environ of the calling process: name -> value
  config,           \* the configuration given to __init__
  provider,         \* the provider instance (self)
  spawned,          \* the subprocess.run calls of the current call, in order
  call,             \* the current call of a provider method and how it ended
  run,              \* the run of main(): its inputs and how it ended
  instances,        \* the provider instances the threads share
  threads,          \* per thread: its call of a provider method
  fmt               \* the formatter, the raw message and what format_response returned

trunc_vars == <<trunc_output, trunc_max_size, trunc_type, trunc_done, trunc_result>>

clean_vars == <<clean_cls, clean_input, clean_done, clean_once, clean_twice>>

vars == <<cls_stdout, cls_stderr, cls_return_code, cls_result,
          trunc_output, trunc_max_size, trunc_type, trunc_done, trunc_result,
          clean_cls, clean_input, clean_done, clean_once, clean_twice,
          fs, os_environ, config, provider, spawned, call, run,
          instances, threads, fmt>>

prov_vars == <<fs, os_environ, config, provider, spawned, call>>

cls_vars == <<cls_stdout, cls_stderr, cls_return_code, cls_result>>

\* no call has returned yet
NoResult == [error_type |-> "NoResult"]

\* ------------------------------------------------------------------------
\* Bounds and input sets
\* ------------------------------------------------------------------------

\* number of phrases concatenated into a stderr text given to the classifier
MaxStderrPhrases == 2

\* phrases of a CLI error output
ClassifierPhrases ==
  {<<"4","2","9"," ","T","o","o"," ","M","a","n","y"," ","R","e","q","u","e","s","t","s">>, <<"Q","u","o","t","a"," ","e","x","c","e","e","d","e","d">>, <<"4","0","1"," ","U","n","a","u","t","h","o","r","i","z","e","d">>,
   <<"a","u","t","h","e","n","t","i","c","a","t","i","o","n"," ","f","a","i","l","e","d">>, <<"L","o","a","d","e","d"," ","c","a","c","h","e","d"," ","c","r","e","d","e","n","t","i","a","l","s">>,
   <<"E","r","r","o","r"," ","w","h","e","n"," ","t","a","l","k","i","n","g"," ","t","o"," ","G","e","m","i","n","i"," ","A","P","I">>, <<"n","e","t","w","o","r","k"," ","e","r","r","o","r">>, <<"a","p","i"," ","k","e","y">>,
   <<"r","e","q","u","e","s","t"," ","t","i","m","e","d"," ","o","u","t">>, <<"\n">>, <<" ">>, <<"b","o","o","m">>}

ClassifierStdouts ==
  {<<>>, <<" ","\n">>, <<"f","e","a","t",":"," ","a","d","d"," ","p","a","r","s","e","r">>, <<"4","2","9">>, <<"W","a","r","n","i","n","g",":"," ","s","l","o","w">>,
   <<"4","0","1"," ","a","u","t","h","e","n","t","i","c","a","t","i","o","n"," ","f","a","i","l","e","d","\n","4","2","9"," ","q","u","o","t","a"," ","e","x","c","e","e","d","e","d">>}

ClassifierStderrs == Concats(ClassifierPhrases, MaxStderrPhrases)

ReturnCodes == {0, 1, 2}

\* ------------------------------------------------------------------------
\* Specification of the classifier: any outcome, then classify_error
\* ------------------------------------------------------------------------

\* the classifier is not in use
ClsIdle ==
  /\ cls_stdout = <<>>
  /\ cls_stderr = <<>>
  /\ cls_return_code = 0
  /\ cls_result = NoResult

\* _truncate_output is not in use
TruncIdle ==
  /\ trunc_output = <<>>
  /\ trunc_max_size = 0
  /\ trunc_type = <<>>
  /\ trunc_done = FALSE
  /\ trunc_result = <<>>

\* _clean_response is not in use
CleanIdle ==
  /\ clean_cls = "none"
  /\ clean_input = <<>>
  /\ clean_done = FALSE
  /\ clean_once = <<>>
  /\ clean_twice = <<>>

\* no configuration
NoConfig ==
  [has_model |-> FALSE, model_name |-> <<>>, timeout_kind |-> "unset",
   timeout |-> 0, api_key |-> <<>>]

\* no method call
NoCall == [method |-> "none"]

\* main() is not in use
RunIdle == run = [pc |-> "idle"]

\* the formatter is not in use
FormatIdle == fmt = [pc |-> "idle"]

\* no thread is in use
ThreadsIdle ==
  /\ instances = <<>>
  /\ threads = <<>>

\* no provider is in use
ProvIdle ==
  /\ fs = <<>>
  /\ os_environ = <<>>
  /\ config = NoConfig
  /\ provider = NoProvider("none", "new", "none")
  /\ spawned = <<>>
  /\ call = NoCall

InitClassifier ==
  /\ RunIdle
  /\ FormatIdle
  /\ ThreadsIdle
  /\ TruncIdle
  /\ CleanIdle
  /\ ProvIdle
  /\ cls_stdout \in ClassifierStdouts
  /\ cls_stderr \in ClassifierStderrs
  /\ cls_return_code \in ReturnCodes
  /\ cls_result = NoResult

ClassifyError ==
  /\ cls_result = NoResult
  /\ cls_result' = classify_error(cls_stdout, cls_stderr, cls_return_code)
  /\ UNCHANGED <<cls_stdout, cls_stderr, cls_return_code>>
  /\ UNCHANGED <<trunc_vars, clean_vars, prov_vars>>
  /\ UNCHANGED <<run, instances, threads, fmt>>

NextClassifier == ClassifyError

SpecClassifier == InitClassifier /\ [][NextClassifier]_vars

\* ------------------------------------------------------------------------
\* Specification of the size limit: any child output, then _truncate_output
\* as _execute_claude_code_command and GeminiCLIProvider call it
\* ------------------------------------------------------------------------

\* number of pieces concatenated into a child output
MaxTruncChunks == 4

\* a run of MiB - 1 one-byte characters
Filler == [i \in 1..(MiB - 1) |-> "x"]

\* pieces of a child output: a one-byte and a two-byte character, a long
\* run, and the text of the stdout marker itself
TruncChunks == {<<"a">>, <<"U+00E9">>, Filler, TruncationMarker(<<"s","t","d","o","u","t">>)}

\* the (max_size, output_type) pairs of the call sites
TruncCallSites ==
  {<<MAX_STDOUT_SIZE("ClaudeCodeProvider"), <<"s","t","d","o","u","t">>>>,
   <<MAX_STDERR_SIZE("ClaudeCodeProvider"), <<"s","t","d","e","r","r">>>>,
   <<MAX_STDOUT_SIZE("GeminiCLIProvider"), <<"s","t","d","o","u","t">>>>}

InitTruncate ==
  /\ RunIdle
  /\ FormatIdle
  /\ ThreadsIdle
  /\ ClsIdle
  /\ CleanIdle
  /\ ProvIdle
  /\ trunc_output \in Concats(TruncChunks, MaxTruncChunks)
  /\ trunc_max_size = 0
  /\ trunc_type = <<>>
  /\ trunc_done = FALSE
  /\ trunc_result = <<>>

TruncateOutput ==
  /\ ~trunc_done
  /\ \E site \in TruncCallSites :
       /\ trunc_max_size' = site[1]
       /\ trunc_type' = site[2]
       /\ trunc_result' = _truncate_output(trunc_output, site[1], site[2])
  /\ trunc_done' = TRUE
  /\ UNCHANGED trunc_output
  /\ UNCHANGED <<cls_vars, clean_vars, prov_vars>>
  /\ UNCHANGED <<run, instances, threads, fmt>>

NextTruncate == TruncateOutput

SpecTruncate == InitTruncate /\ [][NextTruncate]_vars

\* ------------------------------------------------------------------------
\* Specification of the cleaning: any child stdout, then _clean_response,
\* and _clean_response again on what it returned
\* ------------------------------------------------------------------------

\* number of pieces concatenated into a response
MaxCleanChunks == 3

\* pieces of a response
CleanChunks ==
  {<<"C","o","m","m","i","t"," ","m","e","s","s","a","g","e",":">>, <<"C","o","m","m","i","t",":">>, <<"\"">>, <<"U+0027">>, <<"U+0060","U+0060","U+0060">>, <<"\n">>, <<" ">>,
   <<"f","e","a","t",":"," ","a","d","d"," ","p","a","r","s","e","r">>, <<"L","o","a","d","e","d"," ","c","a","c","h","e","d"," ","c","r","e","d","e","n","t","i","a","l","s">>}

\* the provider classes that have a _clean_response
CleaningClasses == {"GeminiDirectCLIProvider", "GeminiNativeCLIProvider"}

InitClean ==
  /\ RunIdle
  /\ FormatIdle
  /\ ThreadsIdle
  /\ ClsIdle
  /\ TruncIdle
  /\ ProvIdle
  /\ clean_cls = "none"
  /\ clean_input \in Concats(CleanChunks, MaxCleanChunks)
  /\ clean_done = FALSE
  /\ clean_once = <<>>
  /\ clean_twice = <<>>

CleanResponse ==
  /\ ~clean_done
  /\ \E cls \in CleaningClasses :
       /\ clean_cls' = cls
       /\ clean_once' = _clean_response(cls, clean_input)
       /\ clean_twice' = _clean_response(cls, _clean_response(cls, clean_input))
  /\ clean_done' = TRUE
  /\ UNCHANGED clean_input
  /\ UNCHANGED <<cls_vars, trunc_vars, prov_vars>>
  /\ UNCHANGED <<run, instances, threads, fmt>>

NextClean == CleanResponse

SpecClean == InitClean /\ [][NextClean]_vars

\* ------------------------------------------------------------------------
\* Specification of construction: any file system and configuration, then
\* __init__ of a provider class
\* ------------------------------------------------------------------------

\* number of files that exist among the paths the providers look at
MaxFiles == 2

\* the directories of PATH
PATH_DIRS == <<<<"/","h","o","m","e","/","u","/",".","l","o","c","a","l","/","b","i","n">>, <<"/","u","s","r","/","l","o","c","a","l","/","b","i","n">>>>

\* the paths a provider class looks at
CandidatePaths(cls) ==
  IF cls = "ClaudeCodeProvider"
  THEN {explicit_paths[i] : i \in 1..Len(explicit_paths)}
       \cup {JoinPath(PATH_DIRS[d], binary_candidates[i]) :
               d \in 1..Len(PATH_DIRS), i \in 1..Len(binary_candidates)}
  ELSE {JoinPath(JoinPath(HomeDir, <<"b","i","n">>), <<"g","e","m","i","n","i","-","w","r","a","p","p","e","r",".","s","h">>)}
       \cup {JoinPath(PATH_DIRS[d], <<"g","e","m","i","n","i">>) : d \in 1..Len(PATH_DIRS)}

\* what a path can be: an executable regular file, a regular file without
\* execute permission, a symlink to an executable of the same name under
\* /tmp or /var/tmp, a symlink to an executable of another name
FileKinds == {"plain", "noexec", "link_tmp", "link_vartmp", "link_other"}

\* the file system entry of a path of that kind
FileEntry(path, kind) ==
  [is_file  |-> TRUE,
   x_ok     |-> kind # "noexec",
   realpath |-> IF kind = "link_tmp" THEN JoinPath(<<"/","t","m","p","/","e","v","i","l">>, basename(path))
                ELSE IF kind = "link_vartmp" THEN JoinPath(<<"/","v","a","r","/","t","m","p","/","e","v","i","l">>, basename(path))
                ELSE IF kind = "link_other" THEN <<"/","o","p","t","/","a","p","p","/","b","i","n","/","n","o","d","e">>
                ELSE path]

\* the file systems with at most MaxFiles of the candidate paths
FileSystems(cls) ==
  {[path \in DOMAIN kinds |-> FileEntry(path, kinds[path])] :
     kinds \in UNION {[S -> FileKinds] :
                        S \in {T \in SUBSET CandidatePaths(cls) : Cardinality(T) <= MaxFiles}}}

\* a file system in which the construction of every class succeeds
PlainFileSystem ==
  [path \in {<<"/","u","s","r","/","l","o","c","a","l","/","b","i","n","/","c","l","a","u","d","e">>, <<"/","u","s","r","/","l","o","c","a","l","/","b","i","n","/","g","e","m","i","n","i">>}
     |-> FileEntry(path, "plain")]

\* the timeout values of a configuration
TimeoutSamples == {-5, 0, 1, 30, 301, 601}

\* configurations
Configs ==
  {[has_model |-> hm, model_name |-> mn, timeout_kind |-> tk, timeout |-> tv, api_key |-> <<>>] :
     hm \in BOOLEAN, mn \in {<<>>, <<"g","e","m","i","n","i","-","1",".","5","-","p","r","o">>}, tk \in {"unset", "int", "text"},
     tv \in TimeoutSamples}

\* the configurations as a loader can produce them
ConfigSamples ==
  {c \in Configs : /\ (~c.has_model => c.model_name = <<>>)
                   /\ (c.timeout_kind # "int" => c.timeout = 30)}

InitConstruct ==
  /\ RunIdle
  /\ FormatIdle
  /\ ThreadsIdle
  /\ ClsIdle
  /\ TruncIdle
  /\ CleanIdle
  /\ \E cls \in ProviderClasses :
       /\ provider = NoProvider(cls, "new", "none")
       /\ fs \in FileSystems(cls)
  /\ config = NoConfig
  /\ os_environ = <<>>
  /\ spawned = <<>>
  /\ call = NoCall

Construct ==
  /\ provider.state = "new"
  /\ \E c \in ConfigSamples :
       /\ config' = c
       /\ provider' = __init__(provider.cls, c, fs, PATH_DIRS)
  /\ UNCHANGED <<fs, os_environ, spawned, call>>
  /\ UNCHANGED <<cls_vars, trunc_vars, clean_vars>>
  /\ UNCHANGED <<run, instances, threads, fmt>>

NextConstruct == Construct

SpecConstruct == InitConstruct /\ [][NextConstruct]_vars

\* ------------------------------------------------------------------------
\* Specification of the calls: a constructed provider, then one call of
\* generate_commit_message or test_connection with any outcome of its
\* child processes
\* ------------------------------------------------------------------------

\* n spaces
Spaces(n) == [i \in 1..n |-> " "]

\* the configurations the calls are made with
CallConfigs(cls) ==
  {[has_model |-> TRUE, model_name |-> mn, timeout_kind |-> "unset", timeout |-> 30,
    api_key |-> ak] :
     mn \in IF cls = "GeminiDirectCLIProvider"
            THEN {<<"g","e","m","i","n","i","-","1",".","5","-","p","r","o">>, <<"g","e","m","i","n","i","-","2",".","0","-","f","l","a","s","h">>}
            ELSE IF cls = "ClaudeCodeProvider" THEN {<<"s","o","n","n","e","t">>}
            ELSE {<<"g","e","m","i","n","i","-","1",".","5","-","p","r","o">>},
     ak \in IF cls = "GeminiDirectCLIProvider" THEN {<<>>, <<"k">>} ELSE {<<>>}}

\* the variables of the caller's environment
EnvSamples ==
  {[var \in names |-> "inherited"] :
     names \in {{"PATH"},
                {"PATH", "HOME", "LANG", "NO_COLOR", "SHELL", "PS1", "AWS_SECRET_ACCESS_KEY"}}}

\* the staged diffs: none, blank, short, with shell metacharacters, one
\* longer than the argument limit of the Gemini providers, one that makes
\* the prompt of the template "Summarize: $diff" exactly as long as the
\* limit, and one that makes it as many characters but one byte more
DiffSamples ==
  {<<>>, <<" "," ">>, <<"+","a">>, <<"+","a",";"," ","r","m"," ","-","r","f"," ","/">>,
   <<"+">> \o [i \in 1..PromptArgLimit |-> "b"],
   [i \in 1..(PromptArgLimit - 11) |-> "b"],
   [i \in 1..(PromptArgLimit - 12) |-> "b"] \o <<"U+00E9">>}

\* the prompt templates
TemplateSamples == {<<>>, <<"S","u","m","m","a","r","i","z","e",":"," ","$","d","i","f","f">>, <<"S","u","m","m","a","r","i","z","e",":"," ","{","d","i","f","f","}">>}

\* no child process
NoChild == [event |-> "none", returncode |-> 0, stdout |-> <<>>, stderr |-> <<>>]

\* how the --help child of ClaudeCodeProvider can end; the other providers
\* have no such child
HelpSamples(cls) ==
  IF cls = "ClaudeCodeProvider"
  THEN {ChildExit(0, <<"U","s","a","g","e",":"," ","c","l","a","u","d","e"," ","[","-","p",","," ","-","-","p","r","i","n","t","]"," ","[","-","-","m","o","d","e","l"," ","m","]"," ","[","-","-","o","u","t","p","u","t","-","f","o","r","m","a","t"," ","f","]">>, <<>>),
        ChildExit(1, <<>>, <<"u","s","a","g","e",":"," ","c","l","a","u","d","e","-","c","o","d","e"," ","c","h","a","t"," ","-","p">>),
        ChildTimeout, ChildLaunchFailure}
  ELSE {NoChild}

\* what the prompt-carrying child can write to stdout: nothing, blanks, a
\* message, a message too short for GeminiNativeCLIProvider, the API error
\* phrase with and without content, a fenced code block, and outputs longer
\* than the caps
StdoutSamples ==
  {<<>>, <<" ">> \o <<"\n">>, <<"f","e","a","t",":"," ","x">>, <<"o","k">>,
   <<"U+0060","U+0060","U+0060","\n","f","e","a","t",":"," ","x","\n","U+0060","U+0060","U+0060">>,
   <<"E","r","r","o","r"," ","w","h","e","n"," ","t","a","l","k","i","n","g"," ","t","o"," ","G","e","m","i","n","i"," ","A","P","I">>,
   <<"E","r","r","o","r"," ","w","h","e","n"," ","t","a","l","k","i","n","g"," ","t","o"," ","G","e","m","i","n","i"," ","A","P","I">> \o <<"\n">> \o <<"f","e","a","t",":"," ","x">>,
   Spaces(MiB + 1), Spaces(2 * MiB + 1),
   <<"f","e","a","t",":"," ","x">> \o Spaces(2 * MiB) \o <<"y">>}

\* what the prompt-carrying child can write to stderr
StderrSamples ==
  {<<>>, <<"b","o","o","m">>, <<"P","l","e","a","s","e"," ","l","o","g","i","n"," ","f","i","r","s","t">>, <<"c","r","e","d","e","n","t","i","a","l"," ","e","x","p","i","r","e","d">>,
   <<"4","2","9"," ","U+30D5","U+30A9","U+30FC","U+30EB","U+30D0","U+30C3","U+30AF","U+6210","U+529F">>, <<"e","r","r","o","r"," ","w","h","e","n"," ","t","a","l","k","i","n","g"," ","t","o"," ","g","e","m","i","n","i"," ","a","p","i">>,
   <<"r","a","t","e"," ","l","i","m","i","t",":"," ","a","u","t","h"," ","e","r","r","o","r">>}

\* how the prompt-carrying child can end
ChildOutcomes ==
  {ChildExit(rc, out, err) : rc \in ReturnCodes, out \in StdoutSamples, err \in StderrSamples}
  \cup {ChildTimeout, ChildLaunchFailure}

InitCall ==
  /\ RunIdle
  /\ FormatIdle
  /\ ThreadsIdle
  /\ ClsIdle
  /\ TruncIdle
  /\ CleanIdle
  /\ fs = PlainFileSystem
  /\ os_environ \in EnvSamples
  /\ \E cls \in ProviderClasses :
       /\ config \in CallConfigs(cls)
       /\ provider = __init__(cls, config, fs, PATH_DIRS)
  /\ spawned = <<>>
  /\ call = NoCall

\* one call of generate_commit_message(diff, prompt_template)
GenerateCommitMessage ==
  /\ provider.state = "ready"
  /\ call.method = "none"
  /\ \E diff \in DiffSamples, prompt_template \in TemplateSamples,
        help \in HelpSamples(provider.cls), outcome \in ChildOutcomes :
       LET requests == generate_spawned(provider, diff, prompt_template, os_environ, help)
       IN  /\ spawned' = requests
           /\ call' = [method          |-> "generate_commit_message",
                       diff            |-> diff,
                       prompt_template |-> prompt_template,
                       ran             |-> requests # <<>>,
                       help            |-> IF requests # <<>> THEN help ELSE NoChild,
                       outcome         |-> IF requests # <<>> THEN outcome ELSE NoChild,
                       result          |-> generate_commit_message(provider, diff,
                                                                   prompt_template, outcome)]
  /\ UNCHANGED <<fs, os_environ, config, provider>>
  /\ UNCHANGED <<cls_vars, trunc_vars, clean_vars>>
  /\ UNCHANGED <<run, instances, threads, fmt>>

\* one call of test_connection()
TestConnection ==
  /\ provider.state = "ready"
  /\ call.method = "none"
  /\ \E help \in HelpSamples(provider.cls), outcome \in ChildOutcomes :
       /\ spawned' = test_spawned(provider, os_environ, help)
       /\ call' = [method          |-> "test_connection",
                   diff            |-> <<>>,
                   prompt_template |-> <<>>,
                   ran             |-> TRUE,
                   help            |-> help,
                   outcome         |-> outcome,
                   result          |-> test_connection(provider, outcome)]
  /\ UNCHANGED <<fs, os_environ, config, provider>>
  /\ UNCHANGED <<cls_vars, trunc_vars, clean_vars>>
  /\ UNCHANGED <<run, instances, threads, fmt>>

NextCall == GenerateCommitMessage \/ TestConnection

SpecCall == InitCall /\ [][NextCall]_vars

\* ------------------------------------------------------------------------
\* main(): configuration file, staged changes, provider, message
\* ------------------------------------------------------------------------

\* ConfigManager.supported_providers: name -> type
supported_providers ==
  [name \in {<<"o","p","e","n","a","i">>, <<"a","n","t","h","r","o","p","i","c">>, <<"g","e","m","i","n","i","-","a","p","i">>, <<"g","e","m","i","n","i","-","c","l","i">>, <<"c","l","a","u","d","e","-","c","o","d","e">>} |->
     IF name \in {<<"g","e","m","i","n","i","-","c","l","i">>, <<"c","l","a","u","d","e","-","c","o","d","e">>} THEN "cli" ELSE "api"]

\* SecurityValidator.check_file_permissions: the level for the last three
\* octal digits of the mode of an existing file
check_file_permissions(mode) ==
  IF mode = "600" THEN "safe"
  ELSE IF mode \in {"644", "640"} THEN "warning"
  ELSE "danger"

\* the template get_prompt_template falls back to
DefaultPromptTemplate ==
  <<"B","a","s","e","d"," ","o","n"," ","t","h","e"," ","f","o","l","l","o","w","i","n","g"," ","g","i","t"," ","d","i","f","f",","," ","g","e","n","e","r","a","t","e"," ","a"," ","c","o","n","c","i","s","e"," ","c","o","m","m","i","t"," ","m","e","s","s","a","g","e"," ","t","h","a","t"," ","f","o","l","l","o","w","s"," ","c","o","n","v","e","n","t","i","o","n","a","l"," ","c","o","m","m","i","t","s"," ","f","o","r","m","a","t",":","\n","\n","$","d","i","f","f","\n","\n","G","e","n","e","r","a","t","e"," ","o","n","l","y"," ","t","h","e"," ","c","o","m","m","i","t"," ","m","e","s","s","a","g","e",","," ","n","o"," ","a","d","d","i","t","i","o","n","a","l"," ","t","e","x","t",".">>

\* ConfigManager.get_prompt_template
get_prompt_template(cfg) ==
  LET template == IF cfg.prompt_template = <<>> THEN DefaultPromptTemplate
                  ELSE cfg.prompt_template
  IN  IF ~Contains(template, <<"$","d","i","f","f">>) THEN RaiseMsg("ConfigError", "no $diff placeholder")
      ELSE Return(template)

\* ConfigManager.get_api_key ends without ConfigError: a key is found in the
\* file or in the environment and SecurityValidator.validate_api_key
\* accepts it (cfg.api_key names both facts)
get_api_key_succeeds(cfg) == cfg.api_key = "accepted"

\* isinstance(value, int) and 0 < value <= most
IntInRange(kind, value, most) ==
  kind = "unset" \/ (kind = "int" /\ value > 0 /\ value <= most)

\* ConfigManager.validate_config on self.config; a 'provider' that is a
\* mapping is unhashable, the membership test raises TypeError and the
\* outer except returns False
ConfigManager_validate_config(cfg) ==
  IF cfg.provider_kind = "absent" THEN FALSE
  ELSE IF cfg.provider_kind = "mapping" THEN FALSE
  ELSE IF cfg.provider \notin DOMAIN supported_providers THEN FALSE
  ELSE IF supported_providers[cfg.provider] = "api" /\ ~get_api_key_succeeds(cfg) THEN FALSE
  ELSE IF ~cfg.has_model_name THEN FALSE
  ELSE IF ~IntInRange(cfg.timeout_kind, cfg.timeout, 300) THEN FALSE
  ELSE IF ~IntInRange(cfg.max_tokens_kind, cfg.max_tokens, 4000) THEN FALSE
  ELSE get_prompt_template(cfg).kind = "return"

\* the configuration of an empty file
EmptyConfig ==
  [provider_kind |-> "absent", provider |-> <<>>, provider_type |-> <<>>,
   settings |-> NoConfig, has_model_name |-> FALSE,
   timeout_kind |-> "unset", timeout |-> 30,
   max_tokens_kind |-> "unset", max_tokens |-> 100,
   prompt_template |-> <<>>, api_key |-> "unset"]

\* self.config after load_config read the file: the root dictionary, {} for
\* an empty file (the sample texts hold no ${VAR}, so
\* _expand_environment_variables leaves them as they are)
LoadedConfig(file) == IF file.root = "dict" THEN file.content ELSE EmptyConfig

\* ConfigManager.load_config: how it ends
load_config(file) ==
  IF ~file.exists THEN RaiseMsg("ConfigError", "not found")
  ELSE IF check_file_permissions(file.mode) = "danger"
       THEN RaiseMsg("ConfigError", "security")
  ELSE IF file.root = "invalid" THEN RaiseMsg("ConfigError", "yaml")
  ELSE IF file.root = "list" THEN RaiseMsg("ConfigError", "read")
  ELSE IF ~ConfigManager_validate_config(LoadedConfig(file))
       THEN RaiseMsg("ConfigError", "read")
  ELSE Return(<<>>)

\* CLI_PROVIDERS after _auto_register_providers: normalised name -> class
\* (gemini_cli_provider is not importable, its registration is skipped);
\* API_PROVIDERS stays empty
CLI_PROVIDERS ==
  [name \in {<<"c","l","a","u","d","e","-","c","o","d","e">>, <<"g","e","m","i","n","i","-","n","a","t","i","v","e">>} |->
     IF name = <<"c","l","a","u","d","e","-","c","o","d","e">> THEN "ClaudeCodeProvider" ELSE "GeminiNativeCLIProvider"]

\* cli_providers.get_provider_class: "none" for None
get_cli_provider_class(name) ==
  LET norm == LowerStr(Strip(name))
  IN  IF norm \in DOMAIN CLI_PROVIDERS THEN CLI_PROVIDERS[norm] ELSE "none"

\* ProviderFactory._detect_provider_type on the provider mapping: of the
\* signature keys the mappings here can hold api_key only
_detect_provider_type(settings) ==
  IF settings.api_key # <<>> THEN <<"a","p","i">> ELSE <<>>

\* a provider could not be created: exc is what create_provider raises
NotCreated(exc) == NoProvider("none", "failed", exc)

\* ProviderFactory.create_provider(config): the provider instance, or the
\* exception raised
create_provider(cfg, files, path_dirs) ==
  IF cfg.provider_kind = "absent" THEN NotCreated("ValueError")
  ELSE IF cfg.provider_kind # "mapping" THEN NotCreated("TypeError")
  ELSE IF Strip(cfg.provider) = <<>> THEN NotCreated("ValueError")
  ELSE
    LET given    == LowerStr(Strip(cfg.provider_type))
        detected == IF given # <<>> THEN given ELSE _detect_provider_type(cfg.settings)
        cli_cls  == get_cli_provider_class(cfg.provider)
        provider_class == IF detected = <<"a","p","i">> THEN "none"
                          ELSE IF detected \in {<<"c","l","i">>, <<>>} THEN cli_cls
                          ELSE "none"
    IN  IF provider_class = "none" THEN NotCreated("ValueError")
        ELSE LET instance == __init__(provider_class, cfg.settings, files, path_dirs)
             IN  IF instance.state = "ready" THEN instance
                 ELSE NotCreated("RuntimeError")

\* what main() or test_configuration() leaves behind: the exit code (or the
\* returned boolean), what was printed to standard output, the provider
\* obtained from create_provider, the result of the provider call and the
\* children it started
Exit(exit_code, printed, message, created, result, requests) ==
  [exit_code |-> exit_code, printed |-> printed, message |-> message,
   provider |-> created, result |-> result, requests |-> requests]

\* no message was formatted
NoMessage == [format_response |-> NoInput]

\* nothing was created or called
Early(exit_code, printed) ==
  Exit(exit_code, printed, NoMessage, NoProvider("none", "new", "none"), Return(<<>>), <<>>)

\* test_configuration(config_manager) as called by main: 0 for True, 1 for
\* False or for an exception that main's handlers turn into exit code 1
test_configuration(cfg, files, environ, help, outcome) ==
  IF ~ConfigManager_validate_config(cfg) THEN Early(1, "validation failed")
  ELSE
    LET created == create_provider(cfg, files, PATH_DIRS)
    IN  IF created.state # "ready" THEN Exit(1, "error", NoMessage, created, Return(<<>>), <<>>)
        ELSE
          LET result   == test_connection(created, outcome)
              requests == test_spawned(created, environ, help)
          IN  IF result = Return(PyTrue)
              THEN Exit(0, "connection ok", NoMessage, created, result, requests)
              ELSE IF result.kind = "return"
              THEN Exit(1, "connection failed", NoMessage, created, result, requests)
              ELSE IF result.exc \in ProviderErrors
              THEN Exit(1, "test error", NoMessage, created, result, requests)
              ELSE Exit(1, "error", NoMessage, created, result, requests)

\* the exit code and the line main prints for an exception of the provider
\* call
HandlerOf(exc) ==
  IF exc = "AuthenticationError" THEN "authentication error"
  ELSE IF exc = "ProviderTimeoutError" THEN "timeout error"
  ELSE IF exc \in ProviderErrors THEN "provider error"
  ELSE "error"

\* what MessageFormatter().format_response(raw_message) returns, kept as a
\* term over raw_message: format_response has no raise statement
Formatted(raw_message) == [format_response |-> raw_message]

\* main(): args are the parsed arguments, file the configuration file, git
\* what GitDiffProcessor finds, help and outcome how the children of the
\* provider end
main(args, file, git, files, environ, help, outcome) ==
  IF ~file.exists THEN Early(1, "config file not found")
  ELSE IF load_config(file).kind = "raise" THEN Early(1, "error")
  ELSE
    LET cfg == LoadedConfig(file)
    IN  IF args.test_config THEN test_configuration(cfg, files, environ, help, outcome)
        ELSE IF ~git.has_staged_changes THEN Early(0, "no staged changes")
        ELSE IF git.read_staged_diff.kind = "raise" THEN Early(1, "error")
        ELSE
          LET diff_data == git.read_staged_diff.value
              created   == create_provider(cfg, files, PATH_DIRS)
          IN  IF created.state # "ready"
              THEN Exit(1, "error", NoMessage, created, Return(<<>>), <<>>)
              ELSE
                LET prompt_template == get_prompt_template(cfg).value
                    result   == generate_commit_message(created, diff_data,
                                                        prompt_template, outcome)
                    requests == generate_spawned(created, diff_data, prompt_template,
                                                 environ, help)
                IN  IF result.kind = "raise"
                    THEN Exit(1, HandlerOf(result.exc), NoMessage, created, result, requests)
                    ELSE Exit(0, "formatted message", Formatted(result.value),
                              created, result, requests)

\* ------------------------------------------------------------------------
\* Specification of main(): any arguments, configuration file, git state
\* and child outcome, then one run of main()
\* ------------------------------------------------------------------------

\* the dictionaries a configuration file can hold
ConfigContents ==
  {[provider_kind |-> pk, provider |-> pn, provider_type |-> pt,
    settings |-> st, has_model_name |-> hm,
    timeout_kind |-> tk, timeout |-> tv,
    max_tokens_kind |-> mk, max_tokens |-> mv,
    prompt_template |-> tmpl, api_key |-> ak] :
     pk \in {"absent", "str", "mapping"},
     pn \in {<<>>, <<"c","l","a","u","d","e","-","c","o","d","e">>, <<"g","e","m","i","n","i","-","c","l","i">>, <<"o","p","e","n","a","i">>, <<"g","p","t">>},
     pt \in {<<>>, <<"c","l","i">>},
     st \in {NoConfig} \cup CallConfigs("ClaudeCodeProvider"),
     hm \in BOOLEAN,
     tk \in {"unset", "int", "text"}, tv \in {0, 30, 301},
     mk \in {"unset", "int"}, mv \in {100, 4001},
     tmpl \in TemplateSamples,
     ak \in {"unset", "rejected", "accepted"}}

\* the dictionaries as a YAML file can hold them, each written once
ConfigSamplesOfFile ==
  {c \in ConfigContents :
     /\ (c.provider_kind = "absent") = (c.provider = <<>>)
     /\ (c.provider_kind = "mapping") = (c.settings # NoConfig)
     /\ (c.provider_kind = "mapping" => c.provider = <<"c","l","a","u","d","e","-","c","o","d","e">>)
     /\ (c.provider_kind # "mapping" => c.provider_type = <<>>)
     /\ (c.timeout_kind # "int" => c.timeout = 30)
     /\ (c.max_tokens_kind # "int" => c.max_tokens = 100)
     /\ (c.provider # <<"o","p","e","n","a","i">> => c.api_key = "unset")}

\* the configuration files: absent, or present with a mode and a root
ConfigFiles ==
  {[exists |-> FALSE, mode |-> "600", root |-> "None", content |-> EmptyConfig]}
  \cup {[exists |-> TRUE, mode |-> m, root |-> r, content |-> EmptyConfig] :
          m \in {"600", "644", "666"}, r \in {"None", "list", "invalid"}}
  \cup {[exists |-> TRUE, mode |-> m, root |-> "dict", content |-> c] :
          m \in {"600", "644", "666"}, c \in ConfigSamplesOfFile}

\* what GitDiffProcessor finds: has_staged_changes returns a boolean,
\* read_staged_diff returns the diff or raises GitError
GitSamples ==
  {[has_staged_changes |-> FALSE, read_staged_diff |-> Return(<<>>)],
   [has_staged_changes |-> TRUE, read_staged_diff |-> Return(<<"+","a">>)],
   [has_staged_changes |-> TRUE, read_staged_diff |-> RaiseMsg("GitError", "read")]}

\* how the prompt-carrying child of the provider ends
MainOutcomes ==
  {o \in ChildOutcomes :
     \/ o.event = "timeout"
     \/ o.event = "exit" /\ o.stdout = <<"f","e","a","t",":"," ","x">> /\ o.stderr = <<>>}

\* how the --help child ends
MainHelps ==
  {h \in HelpSamples("ClaudeCodeProvider") : h.event = "exit" /\ h.returncode = 0}

\* main() has not returned
NotExited == Early(-1, "none")

InitMain ==
  /\ ThreadsIdle
  /\ FormatIdle
  /\ ClsIdle
  /\ TruncIdle
  /\ CleanIdle
  /\ fs = PlainFileSystem
  /\ os_environ \in {e \in EnvSamples : DOMAIN e = {"PATH"}}
  /\ config = NoConfig
  /\ provider = NoProvider("none", "new", "none")
  /\ spawned = <<>>
  /\ call = NoCall
  /\ \E args \in [test_config : BOOLEAN], file \in ConfigFiles, git \in GitSamples,
        help \in MainHelps, outcome \in MainOutcomes :
       run = [pc |-> "start", args |-> args, file |-> file, git |-> git,
              help |-> help, outcome |-> outcome, exit |-> NotExited]

\* one run of main()
Main ==
  /\ run.pc = "start"
  /\ run' = [run EXCEPT !.pc = "exited",
                        !.exit = main(run.args, run.file, run.git, fs, os_environ,
                                      run.help, run.outcome)]
  /\ UNCHANGED <<cls_vars, trunc_vars, clean_vars, prov_vars>>
  /\ UNCHANGED <<instances, threads, fmt>>

NextMain == Main

SpecMain == InitMain /\ [][NextMain]_vars

\* ------------------------------------------------------------------------
\* Specification of concurrent calls: two provider instances and threads
\* that each make one call of generate_commit_message or test_connection on
\* one of them.  A call takes three steps (it starts its child processes,
\* the child ends, it returns) and the steps of the threads interleave.
\* ------------------------------------------------------------------------

\* number of threads
MaxThreads == 2

Threads == 1..MaxThreads

\* the configuration the k-th instance is constructed with
InstanceConfig(cls, k) ==
  [has_model |-> TRUE,
   model_name |-> IF cls = "ClaudeCodeProvider"
                  THEN (IF k = 1 THEN <<"s","o","n","n","e","t">> ELSE <<"o","p","u","s">>)
                  ELSE (IF k = 1 THEN <<"g","e","m","i","n","i","-","1",".","5","-","p","r","o">> ELSE <<"g","e","m","i","n","i","-","2",".","0","-","f","l","a","s","h">>),
   timeout_kind |-> "int", timeout |-> IF k = 1 THEN 30 ELSE 60, api_key |-> <<>>]

\* the attributes of self after a step of a method with the attribute
\* cli_timeout set to the timeout of the connection test
attributes_after_test_timeout(self, method) ==
  IF method = "test_connection" THEN [self EXCEPT !.cli_timeout = 10] ELSE self

\* the attributes of self after a step of generate_commit_message or
\* test_connection: the methods and the helpers they call assign no
\* attribute of self
attributes_after(self, method) == self

\* the methods of a provider
ProviderMethods == {"generate_commit_message", "test_connection"}

\* the arguments of the threads' calls
ThreadDiff == <<"+","a">>

ThreadTemplate == <<"S","u","m","m","a","r","i","z","e",":"," ","$","d","i","f","f">>

\* how the --help child of a thread's call ends
ThreadHelp(cls) ==
  IF cls = "ClaudeCodeProvider"
  THEN ChildExit(0, <<"U","s","a","g","e",":"," ","c","l","a","u","d","e"," ","[","-","p",","," ","-","-","p","r","i","n","t","]"," ","[","-","-","m","o","d","e","l"," ","m","]"," ","[","-","-","o","u","t","p","u","t","-","f","o","r","m","a","t"," ","f","]">>, <<>>)
  ELSE NoChild

\* how the prompt-carrying child of a thread's call can end
ThreadOutcomes ==
  {ChildExit(0, <<"f","e","a","t",":"," ","x">>, <<>>), ChildTimeout}

\* the thread has not called
NotCalled ==
  [pc |-> "idle", inst |-> 0, method |-> "none", spawned |-> <<>>,
   outcome |-> NoChild, result |-> RaiseMsg("none", "pending")]

\* the subprocess.run calls of the method
spawned_by(self, method, environ) ==
  IF method = "generate_commit_message"
  THEN generate_spawned(self, ThreadDiff, ThreadTemplate, environ, ThreadHelp(self.cls))
  ELSE test_spawned(self, environ, ThreadHelp(self.cls))

\* how the method ends
result_of(self, method, outcome) ==
  IF method = "generate_commit_message"
  THEN generate_commit_message(self, ThreadDiff, ThreadTemplate, outcome)
  ELSE test_connection(self, outcome)

InitThreads ==
  /\ RunIdle
  /\ FormatIdle
  /\ ClsIdle
  /\ TruncIdle
  /\ CleanIdle
  /\ fs = PlainFileSystem
  /\ os_environ \in {e \in EnvSamples : "HOME" \in DOMAIN e}
  /\ config = NoConfig
  /\ provider = NoProvider("none", "new", "none")
  /\ spawned = <<>>
  /\ call = NoCall
  /\ \E first \in ProviderClasses, second \in ProviderClasses :
       instances = <<__init__(first, InstanceConfig(first, 1), fs, PATH_DIRS),
                     __init__(second, InstanceConfig(second, 2), fs, PATH_DIRS)>>
  /\ threads = [t \in Threads |-> NotCalled]

\* thread t enters a method of an instance and starts its child processes
ThreadCall(t) ==
  /\ threads[t].pc = "idle"
  /\ \E k \in 1..Len(instances), method \in ProviderMethods :
       /\ instances[k].state = "ready"
       /\ threads' = [threads EXCEPT ![t] =
                        [pc |-> "waiting", inst |-> k, method |-> method,
                         spawned |-> spawned_by(instances[k], method, os_environ),
                         outcome |-> NoChild, result |-> RaiseMsg("none", "pending")]]
       /\ instances' = [instances EXCEPT ![k] = attributes_after(@, method)]
  /\ UNCHANGED <<fs, os_environ, config, provider, spawned, call>>
  /\ UNCHANGED <<cls_vars, trunc_vars, clean_vars>>
  /\ UNCHANGED <<run, fmt>>

\* the prompt-carrying child of thread t ends
ThreadChildEnds(t) ==
  /\ threads[t].pc = "waiting"
  /\ \E outcome \in ThreadOutcomes :
       threads' = [threads EXCEPT ![t].pc = "ended", ![t].outcome = outcome]
  /\ UNCHANGED instances
  /\ UNCHANGED <<fs, os_environ, config, provider, spawned, call>>
  /\ UNCHANGED <<cls_vars, trunc_vars, clean_vars>>
  /\ UNCHANGED <<run, fmt>>

\* the method returns or raises in thread t
ThreadReturn(t) ==
  /\ threads[t].pc = "ended"
  /\ LET k == threads[t].inst
         method == threads[t].method
     IN  /\ threads' = [threads EXCEPT
                          ![t].pc = "returned",
                          ![t].result = result_of(instances[k], method, threads[t].outcome)]
         /\ instances' = [instances EXCEPT ![k] = attributes_after(@, method)]
  /\ UNCHANGED <<fs, os_environ, config, provider, spawned, call>>
  /\ UNCHANGED <<cls_vars, trunc_vars, clean_vars>>
  /\ UNCHANGED <<run, fmt>>

NextThreads ==
  \E t \in Threads : ThreadCall(t) \/ ThreadChildEnds(t) \/ ThreadReturn(t)

SpecThreads == InitThreads /\ [][NextThreads]_vars

\* ------------------------------------------------------------------------
\* Specification of the formatter: a MessageFormatter, any raw message,
\* then format_response
\* ------------------------------------------------------------------------

\* number of pieces concatenated into a raw message
MaxFormatChunks == 2

\* pieces of a raw message
FormatChunks ==
  {<<"f","e","a","t",":"," ","a","d","d"," ","p","a","r","s","e","r">>, <<"C","o","m","m","i","t"," ","m","e","s","s","a","g","e",":">>, <<"a","b","c","d","e","f","g","h","i","j","k","l">>, <<"F","i","x"," ","i","t","."," ","N","o","w">>,
   <<"\n">>, <<" ">>, <<"\t">>, <<"\"">>, <<"U+0060">>, <<"U+0060","U+0060","U+0060">>, <<"U+30B3","U+30DF","U+30C3","U+30C8",":">>}

\* max_length of the formatter
FormatMaxLengths == {1, 3, 4, 8, 14, 19, 500}

\* default_message of the formatter
FormatDefaults == {<<"c","h","o","r","e",":"," ","u","p","d","a","t","e"," ","f","i","l","e","s">>, <<"x">>}

InitFormat ==
  /\ RunIdle
  /\ ThreadsIdle
  /\ ClsIdle
  /\ TruncIdle
  /\ CleanIdle
  /\ ProvIdle
  /\ \E max_length \in FormatMaxLengths, default_message \in FormatDefaults,
        raw_message \in Concats(FormatChunks, MaxFormatChunks) :
       fmt = [pc |-> "constructed",
              self |-> MessageFormatter(max_length, default_message),
              raw_message |-> raw_message,
              result |-> <<>>]

\* one call of format_response(raw_message)
FormatResponse ==
  /\ fmt.pc = "constructed"
  /\ fmt' = [fmt EXCEPT !.pc = "returned",
                        !.result = format_response(fmt.self, fmt.raw_message)]
  /\ UNCHANGED <<cls_vars, trunc_vars, clean_vars, prov_vars>>
  /\ UNCHANGED <<run, instances, threads>>

NextFormat == FormatResponse

SpecFormat == InitFormat /\ [][NextFormat]_vars

\* ------------------------------------------------------------------------
\* Claims
\* ------------------------------------------------------------------------

cls_combined == LowerStr(cls_stdout \o <<"\n">> \o cls_stderr)

\* C1: a non-zero exit whose combined output matches a quota pattern and an
\* authentication pattern is classified QUOTA_EXCEEDED, whatever else the
\* text contains.
C1_QuotaWinsOverAuth ==
  (/\ cls_result # NoResult
   /\ cls_return_code # 0
   /\ GroupHits(1, cls_combined) # {}
   /\ GroupHits(2, cls_combined) # {})
  => cls_result.error_type = "QUOTA_EXCEEDED"

\* C2: exit code 0 with empty or whitespace-only stdout is classified as an
\* empty-response failure, not as a success.
C2_BlankStdoutIsNotSuccess ==
  (/\ cls_result # NoResult
   /\ cls_return_code = 0
   /\ IsBlank(cls_stdout))
  => cls_result.error_type # "SUCCESS_WITH_WARNING"

\* number of places where the text p occurs in s
Occurrences(s, p) == Cardinality({i \in 1..(Len(s) - Len(p) + 1) : LitAt(s, i, p)})

\* the result is a prefix of the output of at most max_size bytes, followed
\* by the marker
IsCappedPrefixPlusMarker ==
  \E k \in 0..Len(trunc_output) :
     /\ ByteLen(SubSeq(trunc_output, 1, k)) <= trunc_max_size
     /\ trunc_result = SubSeq(trunc_output, 1, k) \o TruncationMarker(trunc_type)

\* C4 as stated: an output above the cap comes back as at most cap bytes of
\* it plus the marker, and the marker text occurs exactly once in the
\* result; an output at or below the cap comes back unchanged with no marker.
C4_MarkerOccursExactlyOnce ==
  trunc_done =>
    IF ByteLen(trunc_output) > trunc_max_size
    THEN /\ IsCappedPrefixPlusMarker
         /\ Occurrences(trunc_result, TruncationMarker(trunc_type)) = 1
    ELSE trunc_result = trunc_output

\* C4 amended: an output above the cap comes back as at most cap bytes of
\* it plus the marker, appended once; the marker text occurs exactly once in
\* the result when the output does not contain it.  An output at or below
\* the cap comes back unchanged.
C4_MarkerAppendedOnce ==
  trunc_done =>
    IF ByteLen(trunc_output) > trunc_max_size
    THEN /\ IsCappedPrefixPlusMarker
         /\ ( Occurrences(trunc_output, TruncationMarker(trunc_type)) = 0
              => Occurrences(trunc_result, TruncationMarker(trunc_type)) = 1 )
    ELSE trunc_result = trunc_output

\* C4 witness: a truncation that cut inside a two-byte character
C4_Witness ==
  /\ trunc_done
  /\ ByteLen(trunc_output) > trunc_max_size
  /\ ByteLen(trunc_result) < trunc_max_size + ByteLen(TruncationMarker(trunc_type))
  /\ Occurrences(trunc_output, TruncationMarker(trunc_type)) = 0

\* C6: _clean_response of GeminiDirectCLIProvider and of
\* GeminiNativeCLIProvider is idempotent: cleaning a cleaned response
\* changes nothing.
C6_CleanIdempotent == clean_done => clean_twice = clean_once

\* C5: construction yields no provider when the symlink-resolved path of
\* the binary it would use contains /tmp/ or /var/tmp/.
C5_ResolvedPathNotBlocklisted ==
  provider.state = "ready"
    => ~ContainsAny(resolve(fs, provider.binary_path), {<<"/","t","m","p","/">>, <<"/","v","a","r","/","t","m","p","/">>})


\* the prompt-carrying child of a generate_commit_message call was started
GenerateRan == call.method = "generate_commit_message" /\ call.ran

\* C3: for the three providers, whenever the child process exits with code 0
\* and its stdout is empty or whitespace-only, generate_commit_message raises
\* ResponseError and never returns a string.
C3_BlankStdoutRaisesResponseError ==
  (/\ GenerateRan
   /\ call.outcome.event = "exit"
   /\ call.outcome.returncode = 0
   /\ IsBlank(call.outcome.stdout))
    => (call.result.kind = "raise" /\ call.result.exc = "ResponseError")

\* the variables some provider lets through to a child on purpose
AllowListedVars ==
  Claude_safe_vars \cup GeminiNative_safe_vars
  \cup {"GEMINI_API_KEY", "GOOGLE_API_KEY", "OPENAI_API_KEY"}

\* C7: every child process a provider starts during generate_commit_message
\* or test_connection, the capability probe included, gets an environment
\* whose keys all belong to the allow-list; a variable of the caller's
\* environment that is not allow-listed never appears in it.
C7_ChildEnvironmentAllowListed ==
  \A i \in 1..Len(spawned) : DOMAIN spawned[i].env \subseteq AllowListedVars

\* the prompt of the current call
PromptOfCall ==
  IF call.method = "generate_commit_message"
  THEN PromptOf(provider.cls, call.diff, call.prompt_template)
  ELSE IF provider.cls = "ClaudeCodeProvider" THEN Claude_test_prompt
  ELSE IF provider.cls = "GeminiDirectCLIProvider" THEN GeminiDirect_test_prompt
  ELSE GeminiNative_test_prompt

\* the prompt is the stdin payload of the request or one whole element of
\* its argument vector, and no other element holds it (every text holds the
\* empty prompt)
PromptIsOneArgumentOrStdin(request) ==
  /\ \/ request.input \in {PromptOfCall, _sanitize_input(PromptOfCall)}
     \/ Cardinality({k \in 1..Len(request.argv) : request.argv[k] = PromptOfCall}) = 1
  /\ \A k \in 1..Len(request.argv) :
       (PromptOfCall # <<>> /\ request.argv[k] # PromptOfCall)
         => ~Contains(request.argv[k], PromptOfCall)

\* C8: every child process is started from an argument vector whose first
\* element is the binary path resolved at construction, with shell
\* interpretation disabled; the prompt is only ever a single element of the
\* argument vector or the stdin payload.
C8_ArgvFromVerifiedPathNoShell ==
  /\ \A i \in 1..Len(spawned) :
       /\ spawned[i].argv[1] = provider.binary_path
       /\ spawned[i].shell = FALSE
  /\ call.method # "none" /\ call.ran
       => PromptIsOneArgumentOrStdin(spawned[Len(spawned)])

\* a prompt with shell metacharacters went to a child as one argument
C8_Witness ==
  /\ GenerateRan
  /\ Contains(call.diff, <<";"," ","r","m"," ","-","r","f"," ","/">>)
  /\ spawned[Len(spawned)].argv[Len(spawned[Len(spawned)].argv)] = PromptOfCall
  /\ spawned[Len(spawned)].argv[1] = <<"/","u","s","r","/","l","o","c","a","l","/","b","i","n","/","g","e","m","i","n","i">>

\* C9: for the three providers, whenever the prompt-carrying child process
\* reaches its deadline, generate_commit_message raises ProviderTimeoutError:
\* it returns nothing and raises no other error type.
C9_TimeoutRaisesProviderTimeoutError ==
  (GenerateRan /\ call.outcome.event = "timeout")
    => (call.result.kind = "raise" /\ call.result.exc = "ProviderTimeoutError")

\* the child of a GeminiDirectCLIProvider call reached its deadline
C9_Witness ==
  /\ GenerateRan
  /\ provider.cls = "GeminiDirectCLIProvider"
  /\ call.outcome.event = "timeout"
  /\ call.result.exc = "ProviderTimeoutError"

\* the prompt-carrying child of generate_commit_message exited with a
\* non-zero code
GenerateFailedExit ==
  GenerateRan /\ call.outcome.event = "exit" /\ call.outcome.returncode # 0

AnswerDespiteFailure(outcome) ==
  /\ ~IsBlank(outcome.stdout)
  /\ \/ Contains(LowerStr(outcome.stdout \o <<"\n">> \o outcome.stderr),
                 <<"e","r","r","o","r"," ","w","h","e","n"," ","t","a","l","k","i","n","g"," ","t","o"," ","g","e","m","i","n","i"," ","a","p","i">>)
     \/ Contains(outcome.stdout \o <<"\n">> \o outcome.stderr, <<"U+30D5","U+30A9","U+30FC","U+30EB","U+30D0","U+30C3","U+30AF","U+6210","U+529F">>)

TestRan == call.method = "test_connection" /\ call.ran

\* the words by which some provider recognises an authentication failure
AuthenticationWords ==
  {<<"l","o","g","i","n">>, <<"a","u","t","h">>, <<"u","n","a","u","t","h","o","r","i","z","e","d">>, <<"c","r","e","d","e","n","t","i","a","l">>, <<"a","p","i"," ","k","e","y">>}

\* the connection-test child failed and nothing in its output tells of
\* authentication: deadline expiry, empty output after exit 0, or a non-zero
\* exit without an authentication word
FailedWithoutAuthentication(outcome) ==
  \/ outcome.event = "timeout"
  \/ outcome.event = "exit" /\ outcome.returncode = 0 /\ IsBlank(outcome.stdout)
  \/ /\ outcome.event = "exit"
     /\ outcome.returncode # 0
     /\ ~ContainsAny(LowerStr(outcome.stdout \o <<"\n">> \o outcome.stderr),
                     AuthenticationWords)

\* C11: for every provider, when the connection-test child fails with a
\* failure that is not an authentication failure (non-zero exit with quota,
\* network or unclassified output, deadline expiry, empty output),
\* test_connection returns False and does not raise.
C11_TestConnectionReturnsFalse ==
  (TestRan /\ FailedWithoutAuthentication(call.outcome))
    => call.result = Return(PyFalse)

\* what the command layer of the provider makes of the way its child ended
CommandLayer(self, outcome) ==
  IF self.cls = "ClaudeCodeProvider" THEN _execute_claude_code_command(outcome)
  ELSE IF self.cls = "GeminiDirectCLIProvider"
  THEN GeminiDirect_except(GeminiDirect_execute_gemini_command(GeminiDirect_test_prompt, outcome))
  ELSE GeminiNative_execute_gemini_command(outcome)

\* C12: for every provider, whenever the failure of the child is recognised
\* as an authentication failure, generate_commit_message and test_connection
\* raise AuthenticationError: the failure never becomes a returned value and
\* never another error type.
C12_AuthenticationFailureIsRaised ==
  (/\ call.method # "none"
   /\ call.ran
   /\ CommandLayer(provider, call.outcome).exc = "AuthenticationError")
    => (call.result.kind = "raise" /\ call.result.exc = "AuthenticationError")

\* C13: every exception that escapes generate_commit_message or
\* test_connection is a ProviderError or one of its subclasses, whatever the
\* subprocess layer raises.
C13_OnlyProviderErrorsEscape ==
  (call.method # "none" /\ call.result.kind = "raise")
    => call.result.exc \in ProviderErrors

\* the child of GeminiDirectCLIProvider could not be started, or it left the
\* code at the raise statement that names an undefined variable
C13_Witness ==
  /\ call.method = "test_connection"
  /\ call.result = RaiseMsg("ProviderError", "unexpected")
  /\ provider.cls = "GeminiDirectCLIProvider"
  /\ \/ call.outcome.event = "oserror"
     \/ /\ call.outcome.event = "exit"
        /\ call.outcome.returncode # 0
        /\ call.outcome.stdout = <<"E","r","r","o","r"," ","w","h","e","n"," ","t","a","l","k","i","n","g"," ","t","o"," ","G","e","m","i","n","i"," ","A","P","I">>
        /\ ~use_tempfile(PromptOfCall)


\* the children of the current call that carry its prompt
PromptCarriers ==
  {i \in 1..Len(spawned) : PromptIsOneArgumentOrStdin(spawned[i])}

\* the arguments of the generate_commit_message call pass the validation of
\* its provider (only ClaudeCodeProvider validates them)
PassesValidation ==
  /\ call.method = "generate_commit_message"
  /\ provider.cls = "ClaudeCodeProvider"
       => (~IsBlank(call.diff) /\ ~IsBlank(call.prompt_template))

ChildFailed(outcome) ==
  \/ outcome.event \in {"timeout", "oserror"}
  \/ outcome.event = "exit" /\ outcome.returncode # 0

\* the call ended with an error, or with a boolean when it is test_connection
EndedWithErrorOrBoolean ==
  \/ call.result.kind = "raise"
  \/ /\ call.method = "test_connection"
     /\ call.result.kind = "return"
     /\ call.result.value \in {PyTrue, PyFalse}

C17_BlankDiffRaisesBeforeSpawn ==
  (call.method = "generate_commit_message" /\ IsBlank(call.diff))
    => /\ call.result.kind = "raise"
       /\ call.result.exc = "ProviderError"
       /\ spawned = <<>>


\* C16: in every result of classify_error the retryable flag is a function
\* of the category alone: true exactly when the category is QUOTA_EXCEEDED,
\* NETWORK_ERROR or TIMEOUT_ERROR, false for AUTHENTICATION_ERROR,
\* UNKNOWN_ERROR and every success classification.
C16_RetryableByCategory ==
  cls_result # NoResult
    => /\ cls_result.error_type \in {"QUOTA_EXCEEDED", "NETWORK_ERROR", "TIMEOUT_ERROR"}
            => cls_result.is_retryable
       /\ cls_result.error_type \in {"AUTHENTICATION_ERROR", "UNKNOWN_ERROR",
                                     "SUCCESS_WITH_WARNING", "RATE_LIMIT"}
            => ~cls_result.is_retryable
       /\ cls_result.error_type \in ErrorType

\* a failed exit was classified as an authentication error, which is not
\* retryable
C16_Witness ==
  /\ cls_result # NoResult
  /\ cls_return_code # 0
  /\ cls_result.error_type = "AUTHENTICATION_ERROR"
  /\ ~cls_result.is_retryable


\* the candidates of ClaudeCodeProvider in the order of the claim: the
\* explicit paths, then the PATH lookup of each allow-listed name
ClaudeCandidatesInOrder ==
  explicit_paths
  \o [i \in 1..Len(binary_candidates) |-> which(fs, PATH_DIRS, binary_candidates[i])]

\* the candidates that pass all checks: regular file, executable,
\* allow-listed resolved basename, no blocklisted segment in the resolved path
PassingCandidates ==
  {i \in 1..Len(ClaudeCandidatesInOrder) :
     /\ ClaudeCandidatesInOrder[i] # NoPath
     /\ Claude_verify_binary_security(fs, ClaudeCandidatesInOrder[i])}

\* C18: ClaudeCodeProvider binary resolution considers the explicit install
\* paths in their listed order, then the PATH lookup of each allow-listed
\* name; it succeeds with the first candidate that passes all checks, and
\* construction fails only if no candidate passes all checks.
C18_FirstPassingCandidateWins ==
  (/\ provider.cls = "ClaudeCodeProvider"
   /\ provider.state # "new"
   /\ validate_config(provider.cls, config))
    => IF PassingCandidates = {}
       THEN provider.state = "failed"
       ELSE /\ provider.state = "ready"
            /\ provider.binary_path = ClaudeCandidatesInOrder[Min(PassingCandidates)]

\* C19: for every successfully constructed provider and every configured
\* timeout value (0, negative and over-large values included), the deadline
\* used for child processes satisfies 1 <= cli_timeout <= MAX_TIMEOUT.
C19_TimeoutWithinBounds ==
  provider.state = "ready"
    => /\ 1 <= provider.cli_timeout
       /\ provider.cli_timeout <= MAX_TIMEOUT(provider.cls)

\* main() has returned
MainRan == run.pc = "exited"

\* the run generates a message: no --test-config, the configuration file is
\* accepted by load_config, changes are staged and their diff is read, and
\* the child of any provider answers with exit code 0
GeneratingRun ==
  /\ MainRan
  /\ ~run.args.test_config
  /\ load_config(run.file).kind = "return"
  /\ run.git.has_staged_changes
  /\ run.git.read_staged_diff.kind = "return"
  /\ run.outcome.event = "exit" /\ run.outcome.returncode = 0

\* C20: when main() runs with a configuration file accepted by
\* load_config, staged changes and a provider whose generate_commit_message
\* returns a message, it obtains a provider from create_provider, prints the
\* formatted message and returns exit code 0
C20_MainPrintsMessageAndReturnsZero ==
  GeneratingRun =>
    /\ run.exit.provider.state = "ready"
    /\ run.exit.printed = "formatted message"
    /\ run.exit.message = Formatted(run.exit.result.value)
    /\ run.exit.exit_code = 0

\* the text the classifier searches: stdout, a newline, stderr
cls_text == cls_stdout \o <<"\n">> \o cls_stderr

\* at least one pattern of group g matches the text, ignoring case
GroupMatches(g) ==
  \E p \in 1..Len(ERROR_PATTERNS[g].patterns) :
    re_search(ERROR_PATTERNS[g].patterns[p], cls_text)

\* a failed exit without a special-case phrase was classified
ClassifiedByPattern ==
  /\ cls_result # NoResult
  /\ cls_return_code # 0
  /\ \A i \in 1..Len(SPECIAL_CASES) : ~Contains(cls_text, SPECIAL_CASES[i].text)

\* C21: a non-zero exit without a special-case phrase is classified as the
\* first of the groups quota, authentication, network, timeout that has a
\* pattern matching stdout + stderr ignoring case; when no group matches and
\* no authentication indicator occurs it is UNKNOWN_ERROR with confidence 0.5
C21_FirstMatchingGroup ==
  ClassifiedByPattern =>
    /\ \A g \in 1..Len(ERROR_PATTERNS) :
         (GroupMatches(g) /\ \A h \in 1..(g - 1) : ~GroupMatches(h))
           => cls_result.error_type = ERROR_PATTERNS[g].error_type
    /\ ((\A g \in 1..Len(ERROR_PATTERNS) : ~GroupMatches(g))
        /\ ~ContainsAny(LowerStr(cls_text), {<<"4","0","1">>, <<"4","0","3">>, <<"a","u","t","h","e","n","t","i","c","a","t","i","o","n">>, <<"a","p","i"," ","k","e","y">>}))
         => (cls_result.error_type = "UNKNOWN_ERROR" /\ cls_result.confidence = 50)

\* a text matching an authentication and a network pattern but no quota
\* pattern was classified as an authentication error
C21_Witness ==
  /\ ClassifiedByPattern
  /\ ~GroupMatches(1) /\ GroupMatches(2) /\ GroupMatches(3)
  /\ cls_result.error_type = "AUTHENTICATION_ERROR"

\* a text without any pattern or indicator was classified as unknown
C21_WitnessUnknown ==
  /\ ClassifiedByPattern
  /\ \A g \in 1..Len(ERROR_PATTERNS) : ~GroupMatches(g)
  /\ cls_result.error_type = "UNKNOWN_ERROR"

\* the first group with a matching pattern
MatchedGroup == Min({g \in 1..Len(ERROR_PATTERNS) : GroupMatches(g)})

\* the patterns of the matched group that occur in the text
MatchedPatterns ==
  {p \in 1..Len(ERROR_PATTERNS[MatchedGroup].patterns) :
     re_search(ERROR_PATTERNS[MatchedGroup].patterns[p], cls_text)}

\* a failed exit was classified by a pattern match
ClassifiedByMatch ==
  /\ ClassifiedByPattern
  /\ \E g \in 1..Len(ERROR_PATTERNS) : GroupMatches(g)

\* the confidence, in hundredths, of a text in which exactly one pattern
\* occurs once: min(0.9, 0.6 + 0.1)
SingleMatchConfidence == _calculate_confidence(<<<<"x">>>>, <<"x">>)

\* C22: for a failed exit classified by pattern match the confidence is
\* strictly above the single-match confidence when two or more distinct
\* patterns of the matched group occur, never below the single-match
\* confidence and never above 0.95
C22_MorePatternsMoreConfidence ==
  ClassifiedByMatch =>
    /\ Cardinality(MatchedPatterns) >= 2 => cls_result.confidence > SingleMatchConfidence
    /\ cls_result.confidence >= SingleMatchConfidence
    /\ cls_result.confidence <= 95

\* the error output of the child names a quota or rate limit and an
\* authentication failure
QuotaAndAuthentication(outcome) ==
  /\ outcome.event = "exit"
  /\ outcome.returncode # 0
  /\ ContainsAny(LowerStr(outcome.stderr), {<<"r","a","t","e"," ","l","i","m","i","t">>, <<"q","u","o","t","a">>})
  /\ Contains(LowerStr(outcome.stderr), <<"a","u","t","h">>)

\* C23: for ClaudeCodeProvider and GeminiDirectCLIProvider, a non-zero exit
\* whose error output holds quota or rate-limit phrasing and authentication
\* phrasing makes generate_commit_message raise the rate-limit ProviderError,
\* not AuthenticationError
C23_QuotaRaisedBeforeAuthentication ==
  (/\ GenerateRan
   /\ provider.cls \in {"ClaudeCodeProvider", "GeminiDirectCLIProvider"}
   /\ QuotaAndAuthentication(call.outcome))
  => call.result = RaiseMsg("ProviderError", "rate_limit")

\* ClaudeCodeProvider raised AuthenticationError for an error output that
\* names a rate limit and an authentication failure
C23_ClaudeRaisesAuthentication ==
  /\ GenerateRan
  /\ provider.cls = "ClaudeCodeProvider"
  /\ QuotaAndAuthentication(call.outcome)
  /\ call.result.kind = "raise"
  /\ call.result.exc = "AuthenticationError"

\* the prompt is the value of the --prompt argument of the request
IsPromptArgument(request, prompt) ==
  \E k \in 1..(Len(request.argv) - 1) :
    request.argv[k] = <<"-","-","p","r","o","m","p","t">> /\ request.argv[k + 1] = prompt

HasUtf8Locale(env) ==
  \E var \in {"LANG", "LC_ALL"} \cap DOMAIN env : env[var] = "C.UTF-8"

\* C25: for ClaudeCodeProvider and GeminiNativeCLIProvider, when the
\* caller's environment sets neither LANG nor LC_ALL, the environment of
\* every child still holds a locale variable set to a UTF-8 locale
C25_LocaleDefaulted ==
  (/\ call.method # "none"
   /\ provider.cls \in {"ClaudeCodeProvider", "GeminiNativeCLIProvider"}
   /\ {"LANG", "LC_ALL"} \cap DOMAIN os_environ = {})
  => \A i \in 1..Len(spawned) : HasUtf8Locale(spawned[i].env)

\* GeminiNativeCLIProvider started a child with the default locale for a
\* caller without LANG and LC_ALL
C25_NativeDefaultsLocale ==
  /\ call.method # "none"
  /\ provider.cls = "GeminiNativeCLIProvider"
  /\ {"LANG", "LC_ALL"} \cap DOMAIN os_environ = {}
  /\ spawned # <<>>
  /\ \A i \in 1..Len(spawned) : HasUtf8Locale(spawned[i].env)

\* the child exited 0 with a non-blank stdout longer than MAX_STDOUT_SIZE
OversizedAnswer(self, outcome) ==
  /\ outcome.event = "exit"
  /\ outcome.returncode = 0
  /\ ~IsBlank(outcome.stdout)
  /\ ByteLen(outcome.stdout) > MAX_STDOUT_SIZE(self.cls)

\* C26: for every CLI provider, when the child exits 0 with non-blank stdout
\* longer than MAX_STDOUT_SIZE, generate_commit_message returns a message
\* instead of raising
C26_OversizedStdoutStillReturns ==
  (GenerateRan /\ OversizedAnswer(provider, call.outcome))
    => call.result.kind = "return"

\* ClaudeCodeProvider returned a message for an oversized stdout
C26_ClaudeReturnsBounded ==
  /\ GenerateRan
  /\ provider.cls = "ClaudeCodeProvider"
  /\ OversizedAnswer(provider, call.outcome)
  /\ call.result.kind = "return"

Fence == <<"U+0060","U+0060","U+0060">>

\* the text is a single fenced code block: the first line opens the fence,
\* the last line closes it, at least one line between
IsFencedBlock(text) ==
  LET lines == Split(text)
  IN  /\ Len(lines) >= 3
      /\ StartsWith(lines[1], Fence)
      /\ lines[Len(lines)] = Fence
      /\ \A i \in 2..(Len(lines) - 1) : ~Contains(lines[i], Fence)

\* the lines between the fence markers
FenceInner(text) ==
  LET lines == Split(text)
  IN  Strip(Join(SubSeq(lines, 2, Len(lines) - 1)))

FencedAnswer(outcome) ==
  /\ outcome.event = "exit"
  /\ outcome.returncode = 0
  /\ IsFencedBlock(outcome.stdout)

\* C27: for ClaudeCodeProvider and GeminiDirectCLIProvider, when the child
\* exits 0 and its stdout is a single fenced code block,
\* generate_commit_message returns the inner text without the fence markers
C27_FenceUnwrapped ==
  (/\ GenerateRan
   /\ provider.cls \in {"ClaudeCodeProvider", "GeminiDirectCLIProvider"}
   /\ FencedAnswer(call.outcome))
  => call.result = Return(FenceInner(call.outcome.stdout))

\* GeminiDirectCLIProvider returned the inner text of a fenced code block
C27_DirectUnwraps ==
  /\ GenerateRan
  /\ provider.cls = "GeminiDirectCLIProvider"
  /\ FencedAnswer(call.outcome)
  /\ call.result = Return(FenceInner(call.outcome.stdout))

\* the recognised labels the text begins with, case-insensitively
LabelsAt(text) ==
  {i \in 1..Len(prefixes_to_remove) :
     StartsWith(LowerStr(text), LowerStr(prefixes_to_remove[i]))}

\* the text after its first recognised label
AfterFirstLabel(text) ==
  Strip(DropFirst(text, Len(prefixes_to_remove[Min(LabelsAt(text))])))

\* the response begins with a recognised label followed by another one
TwoLeadingLabels(response) ==
  /\ LabelsAt(Strip(response)) # {}
  /\ LabelsAt(AfterFirstLabel(Strip(response))) # {}

\* C28: GeminiDirectCLIProvider._clean_response removes at most one leading
\* label: when the text after the removed label again begins with a
\* recognised label, that second label is kept in the result
C28_SecondLabelKept ==
  (/\ clean_done
   /\ clean_cls = "GeminiDirectCLIProvider"
   /\ TwoLeadingLabels(clean_input))
  => clean_once = RemoveQuotes(RemoveFence(AfterFirstLabel(Strip(clean_input))))

\* a response with two leading labels whose second label was kept
C28_SecondLabelSurvives ==
  /\ clean_done
  /\ clean_cls = "GeminiDirectCLIProvider"
  /\ TwoLeadingLabels(clean_input)
  /\ LabelsAt(clean_once) # {}

\* the k-th instance as its construction left it
Constructed(k) ==
  __init__(instances[k].cls, InstanceConfig(instances[k].cls, k), fs, PATH_DIRS)

\* the call of thread t used the binary path, the model and the timeout its
\* instance was constructed with, and ended as its own child made it end
CallOfItsInstance(t) ==
  LET c == threads[t]
      self == Constructed(c.inst)
  IN  /\ c.spawned = spawned_by(self, c.method, os_environ)
      /\ \A i \in 1..Len(c.spawned) :
           LET argv == c.spawned[i].argv
           IN  /\ argv[1] = self.binary_path
               /\ \A j \in 1..(Len(argv) - 1) :
                    argv[j] \in {<<"-","-","m","o","d","e","l">>, <<"-","m">>} => argv[j + 1] = self.model
      /\ c.method = "generate_commit_message"
           => c.spawned[Len(c.spawned)].timeout = self.cli_timeout
      /\ c.pc = "returned" => c.result = result_of(self, c.method, c.outcome)

C30_NonEmptyWithinMaxLength ==
  (/\ fmt.pc = "returned"
   /\ fmt.self.max_length >= 1
   /\ fmt.self.default_message # <<>>)
  => /\ fmt.result # <<>>
     /\ Len(fmt.result) <= fmt.self.max_length

\* format_response shortened an extracted message that was longer than
\* max_length and marked the cut
C30_Witness ==
  /\ fmt.pc = "returned"
  /\ fmt.self.max_length > 3
  /\ Len(_extract_commit_message(_clean_message(fmt.raw_message))) > fmt.self.max_length
  /\ EndsWith(fmt.result, <<".",".",".">>)
  /\ Len(fmt.result) <= fmt.self.max_length

\* format_response fell back to a default message longer than max_length
C30_DefaultShortened ==
  /\ fmt.pc = "returned"
  /\ IsBlank(_extract_commit_message(_clean_message(fmt.raw_message)))
  /\ ~IsBlank(fmt.raw_message)
  /\ Len(fmt.self.default_message) > fmt.self.max_length
  /\ Len(fmt.result) = fmt.self.max_length

====
